---- MODULE Spec2Model ----
(***************************************************************************)
(* HydraKV: one database of the key/value store.  The model covers the     *)
(* sharded hash table (hashMap.HashMap), its expiration manager            *)
(* (hashMap.TTLManager), its append-only log (hashMap.AOF) with the writer *)
(* task and compaction, the growth monitor (HashMap.ResizeChecker) and the *)
(* registry-level operations of server.Server that clients call.           *)
(* SpecReg adds the server around the databases: the registry, the         *)
(* credential store (utils.Utils), the HTTP and gRPC surfaces, shutdown    *)
(* and start on the files of DB_FOLDER.  SpecCompact runs                  *)
(* createCompressedAOF of two databases one file system call at a time.    *)
(* SpecLimit is the request limiter of the two surfaces, SpecLock the      *)
(* calls of the table taken lock by lock, SpecGrow the growth of a table   *)
(* opened on a log, SpecClock the TTL workload with a wall clock that is   *)
(* set back, SpecReplay the opening of a database on a log cut at any      *)
(* byte, SpecIoErr the compaction with an error return at each step,       *)
(* SpecMut the registry lock of server.Server taken call by call, and      *)
(* SpecCap two clients on a table next to its entry cap.                   *)
(*                                                                         *)
(* Go strings are byte sequences: a string is a sequence of byte codes     *)
(* (ASCII), so "set" is <<115,101,116>>.  The log file is a sequence of    *)
(* bytes, written by writeFrame and parsed by readFrame.                   *)
(***************************************************************************)
EXTENDS Integers, Sequences, FiniteSets, TLC

\* ------------------------------------------------------------- bounds
\* client operations issued in one run of Spec / of SpecSeq
MaxOps == 2
MaxSeqOps == 4
\* seconds the wall clock advances in one run
MaxTicks == 3
\* largest TTL a client passes
MaxTtl == 1
\* Close/reopen cycles in one run
MaxReopens == 1
\* width of the signed integer Incr computes in (the code: 64)
IntBits == 4
\* runtime.NumCPU() * CPU_MULTIPLIER
CpuCount == 1
\* MAX_ENTRIES, the configured per-database entry cap
MaxEntries == 2
\* time.Now().Unix() when the model starts: far above every TTL
StartTime == 100

\* ------------------------------------------------- program constants
\* DefaultBasketSize (2048 in the code, scaled down)
DefaultBasketSize == 2
\* ResizeChecker checks the load every 1000 probes (scaled down)
ProbeThreshold == 2

Procs == {"p1", "p2"}
\* requests and shutdowns of the server in one behaviour
MaxRequests == 3
\* random tokens one behaviour may draw
MaxRand == 3
\* the longest database name (100 in DbNameRegex, scaled)
MaxNameLen == 3
\* compactions of one database between two starts of the process
MaxCompactions == 1
\* crashes of the process in one behaviour
MaxCrashes == 1
\* the key and the value the requests of the server carry
RegKey == <<97>>
RegValue == <<55>>

\* ------------------------------------------------------ byte strings
ActSet == <<115, 101, 116>>
ActDel == <<100, 101, 108>>
ActIncr == <<105, 110, 99, 114>>
EmptyStr == <<>>

\* keys "a" and "c", values "7" and "x"
Keys == {<<97>>, <<99>>}
Values == {<<55>>, <<120>>}
Ttls == 0..MaxTtl

RECURSIVE SumBytes(_)
SumBytes(s) == IF s = <<>> THEN 0 ELSE Head(s) + SumBytes(Tail(s))

\* xxhash64.HashString: a deterministic hash of the key's bytes
HashString(key) == SumBytes(key)

RECURSIVE BitAnd(_, _)
BitAnd(a, b) ==
    IF a = 0 \/ b = 0 THEN 0
    ELSE (a % 2) * (b % 2) + 2 * BitAnd(a \div 2, b \div 2)

RECURSIVE Pow2(_)
Pow2(n) == IF n = 0 THEN 1 ELSE 2 * Pow2(n - 1)

\* bits.Len64: the number of bits needed to represent x
RECURSIVE BitsLen(_)
BitsLen(x) == IF x = 0 THEN 0 ELSE 1 + BitsLen(x \div 2)

LowerPowerOfTwo(shards) ==
    IF shards <= 2 THEN 2 ELSE Pow2(BitsLen(shards - 1))

\* ------------------------------------------------ strconv on int64
IntMin == 0 - Pow2(IntBits - 1)
IntMax == Pow2(IntBits - 1) - 1

IsDigit(b) == b >= 48 /\ b <= 57

RECURSIVE DigitsValue(_)
DigitsValue(s) ==
    IF s = <<>> THEN 0
    ELSE 10 * DigitsValue(SubSeq(s, 1, Len(s) - 1)) + (s[Len(s)] - 48)

\* strconv.ParseInt(s, 10, 64): optional sign, then decimal digits only;
\* out of range is an error
ParseInt(s) ==
    LET signed == s # <<>> /\ s[1] \in {43, 45}
        digits == IF signed THEN Tail(s) ELSE s
        wellFormed == digits # <<>> /\ \A i \in 1..Len(digits) : IsDigit(digits[i])
        mag == DigitsValue(digits)
        val == IF signed /\ s[1] = 45 THEN 0 - mag ELSE mag
    IN IF wellFormed /\ val >= IntMin /\ val <= IntMax
       THEN [ok |-> TRUE, val |-> val]
       ELSE [ok |-> FALSE, val |-> 0]

checkIsNumber(s) == ParseInt(s)

RECURSIVE FormatNat(_)
FormatNat(n) ==
    IF n < 10 THEN <<48 + n>> ELSE FormatNat(n \div 10) \o <<48 + (n % 10)>>

\* a formatter that drops the sign
FormatIntUnsigned(n) == IF n < 0 THEN FormatNat(0 - n) ELSE FormatNat(n)

\* strconv.FormatInt(n, 10)
FormatInt(n) == IF n < 0 THEN <<45>> \o FormatNat(0 - n) ELSE FormatNat(n)

\* int64 addition wraps (two's complement)
AddInt(a, b) == ((a + b - IntMin) % Pow2(IntBits)) + IntMin

\* ------------------------------------------------------- Go maps
MapPut(m, k, v) == [x \in (DOMAIN m) \cup {k} |-> IF x = k THEN v ELSE m[x]]
MapDelete(m, k) == [x \in (DOMAIN m) \ {k} |-> m[x]]
EmptyMap == [x \in {} |-> {}]

\* ------------------------------------------------- expiration manager
\* TTLManager: List[s].list maps an expiry second to the keys of the
\* entries registered under it (the code keeps map[string]*Entry and reads
\* only entry.Key from it).
NewTTLManager(t) ==
    LET n == LowerPowerOfTwo(CpuCount)
    IN [List |-> [s \in 0..(n - 1) |-> EmptyMap],
        lastDeleted |-> t,
        numShards |-> n,
        cancel |-> FALSE]

\* addEntry at wall-clock second t
addEntry(tm, entry, t) ==
    IF entry.Ttl <= 0 THEN tm
    ELSE LET s == BitAnd(entry.Hash, tm.numShards - 1)
             future == t + entry.Ttl
             list == tm.List[s]
         IN IF future <= tm.lastDeleted THEN tm
            ELSE IF future \in DOMAIN list
                 THEN [tm EXCEPT !.List[s] = MapPut(list, future, list[future] \cup {entry.Key})]
                 ELSE [tm EXCEPT !.List[s] = MapPut(list, future, {entry.Key})]

\* delEntry(entry, ttl): the bucket looked up is list[ttl]
delEntry(tm, entry, ttl) ==
    LET s == BitAnd(entry.Hash, tm.numShards - 1)
        list == tm.List[s]
    IN IF ttl \in DOMAIN list
       THEN LET bucket == list[ttl] \ {entry.Key}
            IN IF bucket = {}
               THEN [tm EXCEPT !.List[s] = MapDelete(list, ttl)]
               ELSE [tm EXCEPT !.List[s] = MapPut(list, ttl, bucket)]
       ELSE tm

\* --------------------------------------------------------- hash table
NewEntry(ttl, key, value, hash) ==
    [Ttl |-> ttl, Key |-> key, Value |-> value, Hash |-> hash]

\* The HashMap struct right after its fields are initialised in NewHashMap
\* (reset = TRUE: the log is being replayed).  table[i] is bucket i's chain,
\* head first.
EmptyHashMap(t) ==
    [table |-> [i \in 0..(DefaultBasketSize - 1) |-> <<>>],
     basketNum |-> DefaultBasketSize,
     basketLockNum |-> LowerPowerOfTwo(CpuCount),
     Entries |-> 0,
     deletedEntries |-> 0,
     reset |-> TRUE,
     TTlManager |-> NewTTLManager(t)]

getIndex(h, key) ==
    LET hash == HashString(key)
    IN [index |-> BitAnd(hash, h.basketNum - 1), hash |-> hash]

\* position of the first item of the chain whose key is key, 0 if none
FindKey(chain, key) ==
    IF \E i \in 1..Len(chain) : chain[i].Key = key
    THEN CHOOSE i \in 1..Len(chain) :
            /\ chain[i].Key = key
            /\ \A j \in 1..(i - 1) : chain[j].Key # key
    ELSE 0

\* HashMap.Set under the table read lock and the shard write lock
\* (lines 199-234), at wall-clock second t
Set(h, t, ttl, key, value) ==
    LET ix == getIndex(h, key)
        basket == h.table[ix.index]
        pos == FindKey(basket, key)
    IN IF pos # 0
       THEN LET item == basket[pos]
                tm1 == IF item.Ttl # 0
                       THEN delEntry(h.TTlManager, item, item.Ttl)
                       ELSE h.TTlManager
                item2 == [item EXCEPT !.Value = value, !.Ttl = ttl]
            IN [hm |-> [h EXCEPT !.table[ix.index][pos] = item2,
                                 !.TTlManager = addEntry(tm1, item2, t)],
                ok |-> TRUE]
       ELSE LET e == NewEntry(ttl, key, value, ix.hash)
            IN [hm |-> [h EXCEPT !.table[ix.index] = <<e>> \o basket,
                                 !.TTlManager = addEntry(h.TTlManager, e, t),
                                 !.Entries = @ + 1],
                ok |-> TRUE]

\* HashMap.Get
Get(h, key) ==
    LET ix == getIndex(h, key)
        basket == h.table[ix.index]
        pos == FindKey(basket, key)
    IN IF pos # 0
       THEN [found |-> TRUE, value |-> basket[pos].Value]
       ELSE [found |-> FALSE, value |-> EmptyStr]

\* HashMap.Incr under the locks (lines 276-321)
Incr(h, t, ttl, key, amount) ==
    LET ix == getIndex(h, key)
        basket == h.table[ix.index]
        pos == FindKey(basket, key)
    IN IF pos # 0
       THEN LET item == basket[pos]
                val == checkIsNumber(item.Value)
                add == checkIsNumber(amount)
            IN IF ~val.ok THEN [hm |-> h, ok |-> FALSE]
               ELSE IF ~add.ok THEN [hm |-> h, ok |-> FALSE]
               ELSE LET tm1 == IF item.Ttl # 0
                               THEN delEntry(h.TTlManager, item, item.Ttl)
                               ELSE h.TTlManager
                        item2 == [item EXCEPT
                                    !.Value = FormatInt(AddInt(val.val, add.val)),
                                    !.Ttl = ttl]
                    IN [hm |-> [h EXCEPT !.table[ix.index][pos] = item2,
                                         !.TTlManager = addEntry(tm1, item2, t)],
                        ok |-> TRUE]
       ELSE LET e == NewEntry(ttl, key, amount, ix.hash)
            IN [hm |-> [h EXCEPT !.table[ix.index] = <<e>> \o basket,
                                 !.TTlManager = addEntry(h.TTlManager, e, t),
                                 !.Entries = @ + 1],
                ok |-> TRUE]

\* an unlink that always cuts the head of the chain
UnlinkHead(chain, pos) == Tail(chain)

\* the chain without its item at position pos (prev.Next = item.Next, or
\* basket.Items = item.Next for the head)
Unlink(chain, pos) == SubSeq(chain, 1, pos - 1) \o SubSeq(chain, pos + 1, Len(chain))

\* a Del that counts a deletion for a key it did not find
DelCountsMiss(h, key) ==
    LET ix == getIndex(h, key)
        basket == h.table[ix.index]
        pos == FindKey(basket, key)
    IN IF basket = <<>> THEN [hm |-> [h EXCEPT !.deletedEntries = @ + 1], ok |-> FALSE]
       ELSE IF pos # 0
       THEN LET item == basket[pos]
            IN [hm |-> [h EXCEPT !.TTlManager = delEntry(h.TTlManager, item, item.Ttl),
                                 !.table[ix.index] = Unlink(basket, pos),
                                 !.Entries = @ - 1,
                                 !.deletedEntries = @ + 1],
                ok |-> TRUE]
       ELSE [hm |-> [h EXCEPT !.deletedEntries = @ + 1], ok |-> FALSE]

\* HashMap.Del under the locks (lines 335-373)
Del(h, key) ==
    LET ix == getIndex(h, key)
        basket == h.table[ix.index]
        pos == FindKey(basket, key)
    IN IF basket = <<>> THEN [hm |-> h, ok |-> FALSE]
       ELSE IF pos # 0
       THEN LET item == basket[pos]
            IN [hm |-> [h EXCEPT !.TTlManager = delEntry(h.TTlManager, item, item.Ttl),
                                 !.table[ix.index] = Unlink(basket, pos),
                                 !.Entries = @ - 1,
                                 !.deletedEntries = @ + 1],
                ok |-> TRUE]
       ELSE [hm |-> h, ok |-> FALSE]

\* all entries of the table in scan order (bucket by bucket, chain order)
RECURSIVE ScanFrom(_, _)
ScanFrom(h, i) ==
    IF i >= h.basketNum THEN <<>> ELSE h.table[i] \o ScanFrom(h, i + 1)

\* HashMap.checkNewBasket: every entry is relinked at the head of bucket
\* Hash & (newSize-1) of a table twice as large
RECURSIVE Relink(_, _, _)
Relink(newTable, items, newSize) ==
    IF items = <<>> THEN newTable
    ELSE LET item == Head(items)
             newIndex == BitAnd(item.Hash, newSize - 1)
         IN Relink([newTable EXCEPT ![newIndex] = <<item>> \o @], Tail(items), newSize)

\* a growth that adds the first size instead of doubling
checkNewBasketByStep(h) ==
    LET newSize == h.basketNum + DefaultBasketSize
        newTable == [i \in 0..(newSize - 1) |-> <<>>]
    IN [h EXCEPT !.table = Relink(newTable, ScanFrom(h, 0), newSize),
                 !.basketNum = newSize]

checkNewBasket(h) ==
    LET newSize == h.basketNum * 2
        newTable == [i \in 0..(newSize - 1) |-> <<>>]
    IN [h EXCEPT !.table = Relink(newTable, ScanFrom(h, 0), newSize),
                 !.basketNum = newSize]

\* a check that also grows the table at a load of exactly 0.75
CheckResizeInclusive(h) ==
    IF 4 * h.Entries >= 3 * h.basketNum THEN checkNewBasket(h) ELSE h

\* HashMap.CheckResize: the load factor Entries/len(table) > 0.75
CheckResize(h) ==
    IF 4 * h.Entries > 3 * h.basketNum THEN checkNewBasket(h) ELSE h

\* HashMap.GetAllEntriesAndCompress: the snapshot handed to compaction
GetAllEntriesAndCompress(h) ==
    LET all == ScanFrom(h, 0)
    IN [i \in 1..Len(all) |-> [Key |-> all[i].Key, Value |-> all[i].Value, Ttl |-> all[i].Ttl]]

\* ----------------------------------------------------- log file frames
Data(action, key, value, ttl) ==
    [Action |-> action, Key |-> key, Value |-> value, Ttl |-> ttl]

\* binary.Write(BigEndian, uint32(n))
PutUint32(n) ==
    <<(n \div 16777216) % 256, (n \div 65536) % 256, (n \div 256) % 256, n % 256>>

\* binary.BigEndian.Uint32
Uint32(b) == ((b[1] * 256 + b[2]) * 256 + b[3]) * 256 + b[4]

\* binary.Write(BigEndian, int64(n)), two's complement; the model's TTLs fit
\* 31 bits, so the upper four bytes are the sign extension
PutInt64(n) ==
    IF n >= 0 THEN <<0, 0, 0, 0>> \o PutUint32(n)
    ELSE LET m == n + 2147483647 + 1
         IN <<255, 255, 255, 255, 128 + ((m \div 16777216) % 256),
              (m \div 65536) % 256, (m \div 256) % 256, m % 256>>

\* binary.Read(BigEndian, &int64)
Int64(b) ==
    IF b[1] = 0 THEN Uint32(SubSeq(b, 5, 8))
    ELSE ((((b[5] - 128) * 256 + b[6]) * 256 + b[7]) * 256 + b[8]) - 2147483647 - 1

\* AOF.writeFrame: length-prefixed action, key and value, then the TTL
writeFrame(data) ==
    PutUint32(Len(data.Action)) \o data.Action
        \o PutUint32(Len(data.Key)) \o data.Key
        \o PutUint32(Len(data.Value)) \o data.Value
        \o PutInt64(data.Ttl)

\* one length-prefixed field of readFrame: io.ReadFull of the 4 size bytes,
\* then of size bytes; a short read is io.EOF / io.ErrUnexpectedEOF
readField(r) ==
    IF Len(r) < 4 THEN [ok |-> FALSE, str |-> EmptyStr, rest |-> <<>>]
    ELSE LET size == Uint32(SubSeq(r, 1, 4))
         IN IF Len(r) < 4 + size THEN [ok |-> FALSE, str |-> EmptyStr, rest |-> <<>>]
            ELSE [ok |-> TRUE, str |-> SubSeq(r, 5, 4 + size),
                  rest |-> SubSeq(r, 5 + size, Len(r))]

\* readFrame with the Ttl read left unchecked: a frame cut inside its last
\* eight bytes is returned with Ttl 0
readFrameShortTtl(r) ==
    LET a == readField(r)
        k == readField(a.rest)
        v == readField(k.rest)
        bad == [ok |-> FALSE, data |-> Data(EmptyStr, EmptyStr, EmptyStr, 0), rest |-> <<>>]
    IN IF ~a.ok THEN bad
       ELSE IF ~k.ok THEN bad
       ELSE IF ~v.ok THEN bad
       ELSE IF Len(v.rest) < 8
            THEN [ok |-> TRUE, data |-> Data(a.str, k.str, v.str, 0), rest |-> <<>>]
       ELSE [ok |-> TRUE,
             data |-> Data(a.str, k.str, v.str, Int64(SubSeq(v.rest, 1, 8))),
             rest |-> SubSeq(v.rest, 9, Len(v.rest))]

\* AOF.readFrame on the unread bytes r
readFrame(r) ==
    LET a == readField(r)
        k == readField(a.rest)
        v == readField(k.rest)
        bad == [ok |-> FALSE, data |-> Data(EmptyStr, EmptyStr, EmptyStr, 0), rest |-> <<>>]
    IN IF ~a.ok THEN bad
       ELSE IF ~k.ok THEN bad
       ELSE IF ~v.ok THEN bad
       ELSE IF Len(v.rest) < 8 THEN bad
       ELSE [ok |-> TRUE,
             data |-> Data(a.str, k.str, v.str, Int64(SubSeq(v.rest, 1, 8))),
             rest |-> SubSeq(v.rest, 9, Len(v.rest))]

\* HashMap.ReplayAOF at wall-clock second t: frames are read until the first
\* short read and applied with reset = TRUE (nothing is enqueued)
RECURSIVE ReplayFrom(_, _, _)
ReplayFrom(h, r, t) ==
    LET f == readFrame(r)
        d == f.data
    IN IF ~f.ok THEN h
       ELSE IF d.Action = ActSet
            THEN ReplayFrom(Set(h, t, d.Ttl, d.Key, d.Value).hm, f.rest, t)
       ELSE IF d.Action = ActDel
            THEN ReplayFrom(Del(h, d.Key).hm, f.rest, t)
       ELSE IF d.Action = ActIncr
            THEN ReplayFrom(Incr(h, t, d.Ttl, d.Key, d.Value).hm, f.rest, t)
       ELSE ReplayFrom(h, f.rest, t)

ReplayAOF(h, file, t) == ReplayFrom(h, file, t)

\* the record Set, Del or Incr sends on a.com for a replayed record d
SentFor(d) ==
    IF d.Action = ActSet THEN <<Data(ActSet, d.Key, d.Value, d.Ttl)>>
    ELSE IF d.Action = ActDel THEN <<Data(ActDel, d.Key, EmptyStr, 0)>>
    ELSE IF d.Action = ActIncr THEN <<Data(ActIncr, d.Key, d.Value, 0)>>
    ELSE <<>>

\* what the replay of the unread bytes r would send, frame by frame
RECURSIVE SentAll(_)
SentAll(r) ==
    LET f == readFrame(r)
    IN IF ~f.ok THEN <<>> ELSE SentFor(f.data) \o SentAll(f.rest)

\* a replay whose Set, Del and Incr send whatever reset is
ReplaySentUnguarded(h, r) == SentAll(r)

\* the records the Set, Del and Incr calls of ReplayAOF send on a.com: each
\* sends only when reset is false, and reset stays as NewHashMap made it
\* until ReplayAOF has returned
ReplaySent(h, r) == IF h.reset THEN <<>> ELSE SentAll(r)

\* NewHashMap on the log file found on disk, at wall-clock second t
NewHashMap(file, t) == [ReplayAOF(EmptyHashMap(t), file, t) EXCEPT !.reset = FALSE]

\* the frames of a sequence of records, end to end
RECURSIVE Frames(_)
Frames(recs) == IF recs = <<>> THEN <<>> ELSE writeFrame(Head(recs)) \o Frames(Tail(recs))

\* AOF.createCompressedAOF: the temporary file holds one "set" frame per
\* snapshot entry
CompressedFile(entries) ==
    Frames([i \in 1..Len(entries) |->
               Data(ActSet, entries[i].Key, entries[i].Value, entries[i].Ttl)])

\* number of "set" frames replay reads: each replayed Set sends one resize
\* probe (line 194)
RECURSIVE ReplayProbes(_)
ReplayProbes(r) ==
    LET f == readFrame(r)
    IN IF ~f.ok THEN 0
       ELSE (IF f.data.Action = ActSet THEN 1 ELSE 0) + ReplayProbes(f.rest)

\* ---------------------------------------------------------------- state
VARIABLES
    hm,           \* the HashMap struct (with its TTLManager)
    now,          \* the wall clock, unix seconds
    open,         \* the database is open (HashMap.Close has not returned)
    com,          \* AOF.com: the records enqueued and not yet dequeued
    comClosed,    \* close(a.com) has been called
    sent,         \* number of records sent on a.com since it was made
    buf,          \* AOF.file: bytes buffered by the bufio.Writer
    disk,         \* the bytes of the file AOF.FileName
    loopPc,       \* AOF.Loop: "run" or "quit"
    rcPc,         \* ResizeChecker: "select", "sending", "store" or "exit"
    inputs,       \* ResizeChecker's probe counter
    resizeCheck,  \* number of probes waiting in hm.resizeCheck
    pc,           \* per client: "idle", "get" or "apply"
    op,           \* per client: the operation it called last
    ret,          \* per client: what that operation returned
    opsLeft,      \* operations the clients may still issue
    reopens       \* close/reopen cycles so far

VARIABLES
    dbs,            \* Server.dbs: upper-cased name -> its HashMap and log file name
    apiKeys,        \* Utils.apiKeys: upper-cased name -> stored digest
    folder,         \* the files of DB_FOLDER: file name -> content
    randNext,       \* what crypto/rand delivers next
    up,             \* the server process is running
    apikeyEnabled,  \* ENV.APIKEY_ENABLED
    last,           \* the last request and its response
    reqLeft         \* requests and shutdowns still to come

srvVars == <<dbs, apiKeys, folder, randNext, up, apikeyEnabled, last, reqLeft>>

VARIABLES
    dbFolder,       \* ENV.DB_FOLDER
    paths,          \* the directory entries: path -> inode
    inodes,         \* the files: inode -> content
    tables,         \* database -> its HashMap
    cmp,            \* database -> its AOF inside createCompressedAOF
    crashes         \* crashes of the process so far

cmpVars == <<dbFolder, paths, inodes, tables, cmp, crashes>>

VARIABLES
    sems,           \* surface -> len of its semaphore channel
    reqs            \* request -> the surface it came in on and where it is
limVars == <<sems, reqs>>

VARIABLES
    mutex,          \* HashMap.mutex: its writer and its readers
    basketLocks,    \* HashMap.basketLocks: per lock its writer and its readers
    loc,            \* per client the locals of the call it is in
    gh,             \* what the clients have written, inserted and deleted so far
    snap            \* the entries the writer got for a compaction
lockVars == <<mutex, basketLocks, loc, gh, snap>>

VARIABLES
    smut,           \* Server.mut: readers inside, the writer inside, the writer waiting
    thr,            \* per request goroutine the call it is in and where
    tally,          \* tables built, databases created, deleted, credentials rotated
    mutLeft         \* calls still to come
mutVars == <<smut, thr, tally, mutLeft>>

vars == <<hm, now, open, com, comClosed, sent, buf, disk, loopPc, rcPc, inputs,
          resizeCheck, pc, op, ret, opsLeft, reopens, srvVars, cmpVars, limVars, lockVars,
          mutVars>>

aofVars == <<com, comClosed, sent, buf, disk, loopPc>>
rcVars == <<rcPc, inputs, resizeCheck>>
clientVars == <<pc, op, ret, opsLeft>>
dbVars == <<hm, now, open, aofVars, rcVars, clientVars, reopens>>

NoOp == [kind |-> "none", key |-> EmptyStr, value |-> EmptyStr, ttl |-> 0,
         seq |-> 0, rc |-> "select"]
NoRet == [ok |-> FALSE, value |-> EmptyStr]

\* the operation a client calls: seq is the position of its record in the
\* enqueue order (0: no record), rc is what the growth monitor was doing
\* when it was called
Call(kind, key, value, ttl, seq) ==
    [kind |-> kind, key |-> key, value |-> value, ttl |-> ttl, seq |-> seq, rc |-> rcPc]

\* the log left by a database in which "a" was set and deleted three times
DeletedThrice ==
    Frames(<<Data(ActSet, <<97>>, <<55>>, 0), Data(ActDel, <<97>>, EmptyStr, 0),
             Data(ActSet, <<97>>, <<55>>, 0), Data(ActDel, <<97>>, EmptyStr, 0),
             Data(ActSet, <<97>>, <<55>>, 0), Data(ActDel, <<97>>, EmptyStr, 0)>>)

\* the log files a database is opened on: none (a fresh database) or the log
\* of an earlier run
InitLogs == {<<>>, DeletedThrice}

\* no request yet
NoRequest == [surface |-> "none", kind |-> "none", db |-> EmptyStr, token |-> EmptyStr,
              executed |-> FALSE, code |-> "none",
              exists |-> FALSE, created |-> FALSE, apikey |-> EmptyStr, entries |-> 0]

\* no server process around the database
SrvIdle ==
    /\ dbs = EmptyMap
    /\ apiKeys = EmptyMap
    /\ folder = EmptyMap
    /\ randNext = 0
    /\ up = FALSE
    /\ apikeyEnabled = FALSE
    /\ last = NoRequest
    /\ reqLeft = 0

\* no second database, no compaction in steps
InitCmpIdle ==
    /\ dbFolder = <<>>
    /\ paths = EmptyMap
    /\ inodes = EmptyMap
    /\ tables = EmptyMap
    /\ cmp = EmptyMap
    /\ crashes = 0

\* one database opened by NewHashMap on the log file
InitDb(file, ops) ==
    /\ disk = file
    /\ now = StartTime
    /\ hm = NewHashMap(file, StartTime)
    /\ open = TRUE
    /\ com = ReplaySent(EmptyHashMap(StartTime), file)
    /\ comClosed = FALSE
    /\ sent = Len(ReplaySent(EmptyHashMap(StartTime), file))
    /\ buf = <<>>
    /\ loopPc = "run"
    /\ rcPc = "select"
    /\ inputs = 0
    /\ resizeCheck = ReplayProbes(file)
    /\ pc = [p \in Procs |-> "idle"]
    /\ op = [p \in Procs |-> NoOp]
    /\ ret = [p \in Procs |-> NoRet]
    /\ opsLeft = ops
    /\ reopens = 0

LimIdle ==
    /\ sems = EmptyMap
    /\ reqs = EmptyMap

LockIdle ==
    /\ mutex = EmptyMap
    /\ basketLocks = EmptyMap
    /\ loc = EmptyMap
    /\ gh = EmptyMap
    /\ snap = <<>>

\* no request goroutine at the registry lock
MutThreads == {"t1", "t2"}
NoThread == "none"
IdleThread == [pc |-> "idle", blocked |-> FALSE, kind |-> "none", name |-> <<>>, ok |-> FALSE,
               hm |-> <<>>, created |-> FALSE, apikey |-> <<>>]
FreeMutex == [readers |-> 0, writer |-> NoThread, pending |-> NoThread]
NoTally == [built |-> 0, created |-> 0, deleted |-> 0, rotated |-> 0]

MutIdle ==
    /\ smut = FreeMutex
    /\ thr = [t \in MutThreads |-> IdleThread]
    /\ tally = NoTally
    /\ mutLeft = 0

InitWith(file, ops) == InitDb(file, ops) /\ SrvIdle /\ InitCmpIdle /\ LimIdle /\ LockIdle /\ MutIdle

Init == \E file \in InitLogs : InitWith(file, MaxOps)

\* ------------------------------------------------------ request limits
\* HKV_REQUEST_LIMIT and HKV_GRPC_REQUEST_LIMIT, scaled from 500 and 1000
ReqLimit == 1
GrpcReqLimit == 2
\* the requests of the workload
MaxConns == 4
Conns == 1..MaxConns
Surfaces == {"http", "grpc"}

\* cap of the channel behind a surface: newRequestLimiter makes the HTTP
\* one, grpcRequestLimitInterceptor the gRPC one
Capacity(s) == IF s = "http" THEN ReqLimit ELSE GrpcReqLimit

\* the send case of the select is ready when the channel has room
TrySendOver(len, cap) == len <= cap

TrySend(len, cap) == len < cap

\* what the default case answers
Overload(s) == IF s = "http" THEN "429" ELSE "ResourceExhausted"

NoConn == [pc |-> "none", surface |-> "", ran |-> FALSE, status |-> ""]

\* a request reaches the limiter of its surface: the select either puts a
\* token into the channel and calls the handler, or answers at once
LimitSelect(c, s) ==
    /\ reqs[c].pc = "none"
    /\ IF TrySend(sems[s], Capacity(s))
         THEN /\ sems' = [sems EXCEPT ![s] = @ + 1]
              /\ reqs' = [reqs EXCEPT ![c] = [pc |-> "handler", surface |-> s,
                                              ran |-> FALSE, status |-> ""]]
         ELSE /\ sems' = sems
              /\ reqs' = [reqs EXCEPT ![c] = [pc |-> "done", surface |-> s,
                                              ran |-> FALSE, status |-> Overload(s)]]
    /\ UNCHANGED <<dbVars, srvVars, cmpVars, lockVars, mutVars>>

\* next.ServeHTTP / handler(ctx, req) returns (or panics); the deferred
\* receive is still to run
HandlerReturns(c) ==
    /\ reqs[c].pc = "handler"
    /\ \E st \in {"ok", "panic"} :
         reqs' = [reqs EXCEPT ![c].pc = "deferred", ![c].ran = TRUE, ![c].status = st]
    /\ UNCHANGED <<sems, dbVars, srvVars, cmpVars, lockVars, mutVars>>

\* the deferred func takes the token out of the channel
LimitRelease(c) ==
    /\ reqs[c].pc = "deferred"
    /\ sems' = [sems EXCEPT ![reqs[c].surface] = @ - 1]
    /\ reqs' = [reqs EXCEPT ![c].pc = "done"]
    /\ UNCHANGED <<dbVars, srvVars, cmpVars, lockVars, mutVars>>

InitLimit ==
    /\ InitDb(<<>>, 0)
    /\ SrvIdle
    /\ InitCmpIdle
    /\ LockIdle
    /\ MutIdle
    /\ sems = [s \in Surfaces |-> 0]
    /\ reqs = [c \in Conns |-> NoConn]

NextLimit ==
    \/ \E c \in Conns, s \in Surfaces : LimitSelect(c, s)
    \/ \E c \in Conns : HandlerReturns(c)
    \/ \E c \in Conns : LimitRelease(c)

SpecLimit == InitLimit /\ [][NextLimit]_vars

\* ------------------------------------------------------ client calls
CanCall(p) == open /\ ~comClosed /\ pc[p] = "idle" /\ opsLeft > 0

\* a cap check that admits one entry too many
CheckEntriesInclusive == hm.Entries <= MaxEntries

\* Server.CheckEntries
CheckEntries == hm.Entries < MaxEntries

\* a send on a.com when reset is false
Enqueue(d) ==
    /\ com' = IF hm.reset THEN com ELSE Append(com, d)
    /\ sent' = IF hm.reset THEN sent ELSE sent + 1

Return(p, o, r) ==
    /\ pc' = [pc EXCEPT ![p] = "idle"]
    /\ op' = [op EXCEPT ![p] = o]
    /\ ret' = [ret EXCEPT ![p] = r]

\* Server.Set: the cap check, then HashMap.Set up to its locks (the record
\* is enqueued and a resize probe sent, lines 188-197)
ServerSet(p, T) ==
    /\ CanCall(p)
    /\ opsLeft' = opsLeft - 1
    /\ \E key \in Keys, value \in Values, ttl \in T :
         IF CheckEntries
         THEN /\ Enqueue(Data(ActSet, key, value, ttl))
              /\ resizeCheck' = resizeCheck + 1
              /\ pc' = [pc EXCEPT ![p] = "apply"]
              /\ op' = [op EXCEPT ![p] = Call("set", key, value, ttl, sent + 1)]
              /\ ret' = [ret EXCEPT ![p] = NoRet]
         ELSE /\ Return(p, Call("set", key, value, ttl, 0), [ok |-> FALSE, value |-> EmptyStr])
              /\ UNCHANGED <<com, sent, resizeCheck>>
    /\ UNCHANGED <<hm, now, open, comClosed, buf, disk, loopPc, rcPc, inputs, reopens, srvVars, cmpVars, limVars, lockVars, mutVars>>

\* Server.SetNX: the cap check
ServerSetNX(p, T) ==
    /\ CanCall(p)
    /\ opsLeft' = opsLeft - 1
    /\ \E key \in Keys, value \in Values, ttl \in T :
         IF CheckEntries
         THEN /\ pc' = [pc EXCEPT ![p] = "get"]
              /\ op' = [op EXCEPT ![p] = Call("setnx", key, value, ttl, 0)]
              /\ ret' = [ret EXCEPT ![p] = NoRet]
         ELSE Return(p, Call("setnx", key, value, ttl, 0), [ok |-> FALSE, value |-> EmptyStr])
    /\ UNCHANGED <<hm, now, open, aofVars, rcVars, reopens, srvVars, cmpVars, limVars, lockVars, mutVars>>

\* Server.SetNX: hm.Get, and when the key is absent hm.Set up to its locks
ServerSetNXGet(p) ==
    /\ pc[p] = "get"
    /\ IF Get(hm, op[p].key).found
       THEN /\ Return(p, op[p], [ok |-> FALSE, value |-> EmptyStr])
            /\ UNCHANGED <<com, sent, resizeCheck>>
       ELSE /\ Enqueue(Data(ActSet, op[p].key, op[p].value, op[p].ttl))
            /\ resizeCheck' = resizeCheck + 1
            /\ pc' = [pc EXCEPT ![p] = "apply"]
            /\ op' = [op EXCEPT ![p].seq = sent + 1]
            /\ UNCHANGED ret
    /\ UNCHANGED <<hm, now, open, comClosed, buf, disk, loopPc, rcPc, inputs,
                   opsLeft, reopens, srvVars, cmpVars, limVars, lockVars, mutVars>>

\* Server.Incr: HashMap.Incr(0, key, amount) up to its locks (the record,
\* which carries no TTL, is enqueued, lines 271-274)
ServerIncr(p) ==
    /\ CanCall(p)
    /\ opsLeft' = opsLeft - 1
    /\ \E key \in Keys, amount \in Values :
         /\ Enqueue(Data(ActIncr, key, amount, 0))
         /\ pc' = [pc EXCEPT ![p] = "apply"]
         /\ op' = [op EXCEPT ![p] = Call("incr", key, amount, 0, sent + 1)]
         /\ ret' = [ret EXCEPT ![p] = NoRet]
    /\ UNCHANGED <<hm, now, open, comClosed, buf, disk, loopPc, rcVars, reopens, srvVars, cmpVars, limVars, lockVars, mutVars>>

\* Server.Del: HashMap.Del up to its locks (the record is enqueued)
ServerDel(p) ==
    /\ CanCall(p)
    /\ opsLeft' = opsLeft - 1
    /\ \E key \in Keys :
         /\ Enqueue(Data(ActDel, key, EmptyStr, 0))
         /\ pc' = [pc EXCEPT ![p] = "apply"]
         /\ op' = [op EXCEPT ![p] = Call("del", key, EmptyStr, 0, sent + 1)]
         /\ ret' = [ret EXCEPT ![p] = NoRet]
    /\ UNCHANGED <<hm, now, open, comClosed, buf, disk, loopPc, rcVars, reopens, srvVars, cmpVars, limVars, lockVars, mutVars>>

\* Server.Get
ServerGet(p) ==
    /\ CanCall(p)
    /\ opsLeft' = opsLeft - 1
    /\ \E key \in Keys :
         LET r == Get(hm, key)
         IN Return(p, Call("get", key, EmptyStr, 0, 0), [ok |-> r.found, value |-> r.value])
    /\ UNCHANGED <<hm, now, open, aofVars, rcVars, reopens, srvVars, cmpVars, limVars, lockVars, mutVars>>

\* the part of HashMap.Set, Incr and Del that runs under the table read
\* lock and the key's shard write lock, and the return
Applied(o) ==
    IF o.kind = "incr" THEN Incr(hm, now, o.ttl, o.key, o.value)
    ELSE IF o.kind = "del" THEN Del(hm, o.key)
    ELSE Set(hm, now, o.ttl, o.key, o.value)

Apply(p) ==
    /\ pc[p] = "apply"
    /\ LET r == Applied(op[p])
       IN /\ hm' = r.hm
          /\ Return(p, op[p], [ok |-> r.ok, value |-> EmptyStr])
    /\ UNCHANGED <<now, open, aofVars, rcVars, opsLeft, reopens, srvVars, cmpVars, limVars, lockVars, mutVars>>

\* ---------------------------------------------------- AOF.Loop (writer)
\* case d, ok := <-a.com with ok: writeFrame into the buffered writer
LoopWrite ==
    /\ loopPc = "run"
    /\ com # <<>>
    /\ buf' = buf \o writeFrame(Head(com))
    /\ com' = Tail(com)
    /\ UNCHANGED <<hm, now, open, comClosed, sent, disk, loopPc, rcVars, clientVars, reopens, srvVars, cmpVars, limVars, lockVars, mutVars>>

\* case <-ticker.C: flush and sync when something is buffered
LoopFlush ==
    /\ loopPc = "run"
    /\ buf # <<>>
    /\ disk' = disk \o buf
    /\ buf' = <<>>
    /\ UNCHANGED <<hm, now, open, com, comClosed, sent, loopPc, rcVars, clientVars, reopens, srvVars, cmpVars, limVars, lockVars, mutVars>>

\* case <-a.compressing: the snapshot is taken under the table write lock
\* and createCompressedAOF replaces the file: the temporary file is written,
\* the old file flushed and closed, the temporary file renamed over it and
\* reopened with an empty buffer
LoopCompress ==
    /\ loopPc = "run"
    /\ rcPc = "sending"
    /\ disk' = CompressedFile(GetAllEntriesAndCompress(hm))
    /\ buf' = <<>>
    /\ rcPc' = "store"
    /\ UNCHANGED <<hm, now, open, com, comClosed, sent, loopPc, inputs, resizeCheck,
                   clientVars, reopens, srvVars, cmpVars, limVars, lockVars, mutVars>>

\* a writer that quits without flushing its buffer
LoopQuitNoFlush ==
    /\ loopPc = "run"
    /\ comClosed
    /\ com = <<>>
    /\ buf' = <<>>
    /\ loopPc' = "quit"
    /\ UNCHANGED <<hm, now, open, com, comClosed, sent, disk, rcVars, clientVars, reopens, srvVars, cmpVars, limVars, lockVars, mutVars>>

\* case <-a.com with !ok (closed and drained): flush, sync, close(a.quit)
LoopQuit ==
    /\ loopPc = "run"
    /\ comClosed
    /\ com = <<>>
    /\ disk' = disk \o buf
    /\ buf' = <<>>
    /\ loopPc' = "quit"
    /\ UNCHANGED <<hm, now, open, com, comClosed, sent, rcVars, clientVars, reopens, srvVars, cmpVars, limVars, lockVars, mutVars>>

\* ------------------------------------- HashMap.ResizeChecker (monitor)
\* case <-hm.resizeCheck
RCProbe ==
    /\ rcPc = "select"
    /\ resizeCheck > 0
    /\ resizeCheck' = resizeCheck - 1
    /\ IF (inputs + 1) % ProbeThreshold = 0
       THEN /\ hm' = CheckResize(hm)
            /\ inputs' = 0
       ELSE /\ inputs' = inputs + 1
            /\ UNCHANGED hm
    /\ UNCHANGED <<now, open, aofVars, rcPc, clientVars, reopens, srvVars, cmpVars, limVars, lockVars, mutVars>>

\* the condition of the 60-second ticker case
CompactionDue(h) ==
    /\ (h.Entries > 2 \/ h.deletedEntries > 2)
    /\ h.deletedEntries >= h.Entries \div 2

\* case <-resizeTicker.C with the condition true: the send on
\* a.compressing blocks until the writer receives
RCTick ==
    /\ rcPc = "select"
    /\ CompactionDue(hm)
    /\ rcPc' = "sending"
    /\ UNCHANGED <<hm, now, open, aofVars, inputs, resizeCheck, clientVars, reopens, srvVars, cmpVars, limVars, lockVars, mutVars>>

\* hm.deletedEntries.Store(0) after the send
RCStore ==
    /\ rcPc = "store"
    /\ hm' = [hm EXCEPT !.deletedEntries = 0]
    /\ rcPc' = "select"
    /\ UNCHANGED <<now, open, aofVars, inputs, resizeCheck, clientVars, reopens, srvVars, cmpVars, limVars, lockVars, mutVars>>

\* case <-hm.done
RCDone ==
    /\ rcPc = "select"
    /\ ~open
    /\ rcPc' = "exit"
    /\ UNCHANGED <<hm, now, open, aofVars, inputs, resizeCheck, clientVars, reopens, srvVars, cmpVars, limVars, lockVars, mutVars>>

\* ------------------------------------------------- close and reopen
\* HashMap.Close up to <-a.quit: TTlManager.Stop (cancel is nil: nothing to
\* stop) and close(a.com).  Callers hold the registry write lock, so no
\* client operation is in progress.
Close ==
    /\ open
    /\ ~comClosed
    /\ \A p \in Procs : pc[p] = "idle"
    /\ comClosed' = TRUE
    /\ UNCHANGED <<hm, now, open, com, sent, buf, disk, loopPc, rcVars, clientVars, reopens, srvVars, cmpVars, limVars, lockVars, mutVars>>

\* HashMap.Close after <-a.quit: the file is closed and hm.done closed
CloseReturn ==
    /\ open
    /\ loopPc = "quit"
    /\ open' = FALSE
    /\ UNCHANGED <<hm, now, aofVars, rcVars, clientVars, reopens, srvVars, cmpVars, limVars, lockVars, mutVars>>

\* NewHashMap on the file of a closed database
Reopen ==
    /\ ~open
    /\ reopens < MaxReopens
    /\ reopens' = reopens + 1
    /\ hm' = NewHashMap(disk, now)
    /\ open' = TRUE
    /\ com' = ReplaySent(EmptyHashMap(now), disk)
    /\ comClosed' = FALSE
    /\ sent' = Len(ReplaySent(EmptyHashMap(now), disk))
    /\ buf' = <<>>
    /\ loopPc' = "run"
    /\ rcPc' = "select"
    /\ inputs' = 0
    /\ resizeCheck' = ReplayProbes(disk)
    /\ UNCHANGED <<now, disk, clientVars, srvVars, cmpVars, limVars, lockVars, mutVars>>

\* the wall clock
Tick ==
    /\ now < StartTime + MaxTicks
    /\ now' = now + 1
    /\ UNCHANGED <<hm, open, aofVars, rcVars, clientVars, reopens, srvVars, cmpVars, limVars, lockVars, mutVars>>

\* One client and every task of the database: the log writer with
\* compaction, the growth monitor, close and reopen.
Next ==
    \/ ServerSet("p1", {0})
    \/ ServerSetNX("p1", {0})
    \/ ServerSetNXGet("p1")
    \/ ServerIncr("p1")
    \/ ServerDel("p1")
    \/ ServerGet("p1")
    \/ Apply("p1")
    \/ LoopWrite
    \/ LoopFlush
    \/ LoopCompress
    \/ LoopQuit
    \/ RCProbe
    \/ RCTick
    \/ RCStore
    \/ RCDone
    \/ Close
    \/ CloseReturn
    \/ Reopen

Spec == Init /\ [][Next]_vars

\* Two concurrent clients and the log writer, on a fresh database.
InitConc == InitWith(<<>>, MaxOps)

NextConc ==
    \/ \E p \in Procs : ServerSet(p, {0})
    \/ \E p \in Procs : ServerSetNX(p, {0})
    \/ \E p \in Procs : ServerSetNXGet(p)
    \/ \E p \in Procs : ServerIncr(p)
    \/ \E p \in Procs : ServerDel(p)
    \/ \E p \in Procs : ServerGet(p)
    \/ \E p \in Procs : Apply(p)
    \/ LoopWrite
    \/ LoopFlush
    \/ LoopQuit
    \/ Close
    \/ CloseReturn

SpecConc == InitConc /\ [][NextConc]_vars

\* Two clients on a database that already holds one or two entries under
\* other keys, so that the cap is within reach of their inserts.
CapLogs ==
    { Frames(<<Data(ActSet, <<98>>, <<55>>, 0)>>),
      Frames(<<Data(ActSet, <<98>>, <<55>>, 0), Data(ActSet, <<100>>, <<55>>, 0)>>) }

InitCap == \E file \in CapLogs : InitWith(file, MaxOps)

NextCap ==
    \/ \E p \in Procs : ServerSet(p, {0})
    \/ \E p \in Procs : ServerSetNX(p, {0})
    \/ \E p \in Procs : ServerSetNXGet(p)
    \/ \E p \in Procs : ServerIncr(p)
    \/ \E p \in Procs : Apply(p)

SpecCap == InitCap /\ [][NextCap]_vars

\* One client running operations one after the other on a fresh database,
\* and the growth monitor's resize.
InitSeq == InitWith(<<>>, MaxSeqOps)

NextSeq ==
    \/ ServerSet("p1", {0})
    \/ ServerSetNX("p1", {0})
    \/ ServerSetNXGet("p1")
    \/ ServerIncr("p1")
    \/ ServerDel("p1")
    \/ ServerGet("p1")
    \/ Apply("p1")
    \/ RCProbe

SpecSeq == InitSeq /\ [][NextSeq]_vars

\* One client writing keys with TTLs while the wall clock advances.  No task
\* of the database sweeps expired keys: NewHashMap builds the TTLManager but
\* never calls its Start, so delEntries never runs.
InitTtl == InitWith(<<>>, MaxOps)

NextTtl ==
    \/ ServerSet("p1", Ttls)
    \/ ServerSetNX("p1", Ttls)
    \/ ServerSetNXGet("p1")
    \/ ServerIncr("p1")
    \/ ServerDel("p1")
    \/ ServerGet("p1")
    \/ Apply("p1")
    \/ Tick

SpecTtl == InitTtl /\ [][NextTtl]_vars

\* The TTL workload on a machine whose wall clock is set back: addEntry
\* reads time.Now().Unix(), the wall clock, and lastDeleted is the wall
\* clock at the time the database was opened.

\* seconds the wall clock is set back below the second the database was
\* opened at
MaxClockBack == 1
\* complete records of the log a database is opened on in SpecReplay
MaxReplayRecords == 2
\* Sets after the compaction of a database in SpecIoErr
MaxAppends == 1
\* calls on the registry in one run of SpecMut
MaxMutCalls == 3

ClockBack ==
    /\ now > StartTime - MaxClockBack
    /\ now' = now - 1
    /\ UNCHANGED <<hm, open, aofVars, rcVars, clientVars, reopens, srvVars, cmpVars,
                   limVars, lockVars, mutVars>>

NextClock ==
    \/ ServerSet("p1", Ttls)
    \/ ServerSetNX("p1", Ttls)
    \/ ServerSetNXGet("p1")
    \/ ServerIncr("p1")
    \/ ServerDel("p1")
    \/ ServerGet("p1")
    \/ Apply("p1")
    \/ Tick
    \/ ClockBack

SpecClock == InitTtl /\ [][NextClock]_vars

\* --------------------------------------------- the locks of the table
\* The calls of HashMap taken lock by lock: the table lock hm.mutex, the
\* basket lock of the key's hash, the scan of the chain and the link of a
\* new entry, with the growth monitor's resize and the writer's snapshot
\* for a compaction under the table write lock.

\* calls of the clients in one behaviour of this workload: on a fresh
\* database, and on one that has a compaction due
MaxLockOps == 3
MaxSnapshotOps == 1

\* HKV_CPU_MULTIPLIER, as a factor on CpuCount: the basket locks are
\* LowerPowerOfTwo(cpuCount * multiplier), as many as the table's first
\* baskets (factor 1) or twice as many (factor 4)
CpuMultipliers == {1, 4}

\* the values the clients of this workload write
LockValues == {<<55>>}

\* NewHashMap with CPU_MULTIPLIER m (lines 98-105, ttl_manager.go:34)
NewHashMapWith(file, t, m) ==
    LET n == LowerPowerOfTwo(CpuCount * m)
        h == NewHashMap(file, t)
    IN [h EXCEPT !.basketLockNum = n,
                 !.TTlManager = [@ EXCEPT !.numShards = n,
                                          !.List = [x \in 0..(n - 1) |-> EmptyMap]]]

NoLock == [w |-> "", r |-> {}]
NoLocals == [index |-> 0, hash |-> 0, head |-> <<>>, seen |-> FALSE]

\* sync.RWMutex: a reader gets in while no writer holds the lock
CanRLockBesideWriter(l) == TRUE

CanRLock(l) == l.w = ""

\* a writer gets in while nobody holds the lock
CanLock(l) == l.w = "" /\ l.r = {}

\* index of the basket lock: WLockBasketLock, RLockBasketLock
BasketLockOf(h, hash) == BitAnd(hash, h.basketLockNum - 1)

ActionOf(kind) ==
    IF kind = "set" THEN ActSet ELSE IF kind = "incr" THEN ActIncr ELSE ActDel

\* HashMap.Set, Incr, Del and Get up to the table lock: the record is sent
\* to the writer, a Set sends a resize probe
LkCall(p) ==
    /\ CanCall(p)
    /\ opsLeft' = opsLeft - 1
    /\ \E kind \in {"set", "incr", "del", "get"}, key \in Keys :
       \E value \in (IF kind \in {"set", "incr"} THEN LockValues ELSE {EmptyStr}) :
         /\ IF kind = "get" THEN UNCHANGED <<com, sent>>
            ELSE Enqueue(Data(ActionOf(kind), key, value, 0))
         /\ resizeCheck' = IF kind = "set" THEN resizeCheck + 1 ELSE resizeCheck
         /\ pc' = [pc EXCEPT ![p] = "rlock"]
         /\ op' = [op EXCEPT ![p] = Call(kind, key, value, 0,
                                         IF kind = "get" THEN 0 ELSE sent + 1)]
         /\ ret' = [ret EXCEPT ![p] = NoRet]
         /\ loc' = [loc EXCEPT ![p] = [NoLocals EXCEPT
                       !.seen = key \in gh.inserted /\ key \notin gh.deleting]]
         /\ gh' = IF kind = "del" THEN [gh EXCEPT !.deleting = @ \cup {key}] ELSE gh
    /\ UNCHANGED <<hm, now, open, comClosed, buf, disk, loopPc, rcPc, inputs, reopens,
                   mutex, basketLocks, snap, srvVars, cmpVars, limVars, mutVars>>

\* hm.mutex.RLock and getIndex
LkRLock(p) ==
    /\ pc[p] = "rlock"
    /\ CanRLock(mutex)
    /\ mutex' = [mutex EXCEPT !.r = @ \cup {p}]
    /\ loc' = [loc EXCEPT ![p].index = getIndex(hm, op[p].key).index,
                          ![p].hash = getIndex(hm, op[p].key).hash]
    /\ pc' = [pc EXCEPT ![p] = "basketlock"]
    /\ UNCHANGED <<hm, now, open, aofVars, rcVars, op, ret, opsLeft, reopens,
                   basketLocks, gh, snap, srvVars, cmpVars, limVars, mutVars>>

\* WLockBasketLock(hash), for Get RLockBasketLock(hash)
LkBasketLock(p) ==
    /\ pc[p] = "basketlock"
    /\ LET i == BasketLockOf(hm, loc[p].hash)
       IN IF op[p].kind = "get"
          THEN /\ CanRLock(basketLocks[i])
               /\ basketLocks' = [basketLocks EXCEPT ![i].r = @ \cup {p}]
          ELSE /\ CanLock(basketLocks[i])
               /\ basketLocks' = [basketLocks EXCEPT ![i].w = p]
    /\ pc' = [pc EXCEPT ![p] = "scan"]
    /\ UNCHANGED <<hm, now, open, aofVars, rcVars, op, ret, opsLeft, reopens,
                   mutex, loc, gh, snap, srvVars, cmpVars, limVars, mutVars>>

\* what the clients have stored under the key of the call, after it
Stored(g, h, key) ==
    IF Get(h, key).found
    THEN [g EXCEPT !.written[key] = @ \cup {Get(h, key).value}]
    ELSE g

\* the loop over the chain: Get answers, Del unlinks, Set and Incr change
\* the entry they find; when they find none they read the head of the chain
\* for the entry they are about to make
LkScan(p) ==
    /\ pc[p] = "scan"
    /\ LET o == op[p]
           found == FindKey(hm.table[loc[p].index], o.key) # 0
       IN IF o.kind = "get"
          THEN /\ ret' = [ret EXCEPT ![p] = [ok |-> Get(hm, o.key).found,
                                             value |-> Get(hm, o.key).value]]
               /\ pc' = [pc EXCEPT ![p] = "unlock"]
               /\ UNCHANGED <<hm, loc, gh>>
          ELSE IF o.kind = "del" \/ found
          THEN /\ hm' = Applied(o).hm
               /\ ret' = [ret EXCEPT ![p] = [ok |-> Applied(o).ok, value |-> EmptyStr]]
               /\ pc' = [pc EXCEPT ![p] = "unlock"]
               /\ gh' = Stored(gh, Applied(o).hm, o.key)
               /\ UNCHANGED loc
          ELSE /\ loc' = [loc EXCEPT ![p].head = hm.table[loc[p].index]]
               /\ pc' = [pc EXCEPT ![p] = "link"]
               /\ UNCHANGED <<hm, ret, gh>>
    /\ UNCHANGED <<now, open, aofVars, rcVars, op, opsLeft, reopens,
                   mutex, basketLocks, snap, srvVars, cmpVars, limVars, mutVars>>

\* the chain that hangs on the entry read as the head: the entry with what
\* follows it now, or as it was read when it has been unlinked since
ChainFrom(cur, head) ==
    IF head = <<>> THEN <<>>
    ELSE IF FindKey(cur, head[1].Key) # 0
    THEN SubSeq(cur, FindKey(cur, head[1].Key), Len(cur))
    ELSE head

\* hm.table[index].Items = e, addEntry, Entries.Add(1)
Linked(h, o, l, t) ==
    LET e == NewEntry(o.ttl, o.key, o.value, l.hash)
    IN [h EXCEPT !.table[l.index] = <<e>> \o ChainFrom(h.table[l.index], l.head),
                 !.TTlManager = addEntry(h.TTlManager, e, t),
                 !.Entries = @ + 1]

LkLink(p) ==
    /\ pc[p] = "link"
    /\ hm' = Linked(hm, op[p], loc[p], now)
    /\ ret' = [ret EXCEPT ![p] = [ok |-> TRUE, value |-> EmptyStr]]
    /\ gh' = [gh EXCEPT !.written[op[p].key] = @ \cup {op[p].value}]
    /\ pc' = [pc EXCEPT ![p] = "unlock"]
    /\ UNCHANGED <<now, open, aofVars, rcVars, op, opsLeft, reopens,
                   mutex, basketLocks, loc, snap, srvVars, cmpVars, limVars, mutVars>>

\* the deferred unlocks and the return
LkUnlock(p) ==
    /\ pc[p] = "unlock"
    /\ LET i == BasketLockOf(hm, loc[p].hash)
       IN basketLocks' = [basketLocks EXCEPT ![i].r = @ \ {p},
                                             ![i].w = IF @ = p THEN "" ELSE @]
    /\ mutex' = [mutex EXCEPT !.r = @ \ {p}]
    /\ gh' = IF op[p].kind \in {"set", "incr"} /\ ret[p].ok
             THEN [gh EXCEPT !.inserted = @ \cup {op[p].key}]
             ELSE gh
    /\ pc' = [pc EXCEPT ![p] = "idle"]
    /\ UNCHANGED <<hm, now, open, aofVars, rcVars, op, ret, opsLeft, reopens,
                   loc, snap, srvVars, cmpVars, limVars, mutVars>>

\* ResizeChecker, case <-hm.resizeCheck: at the threshold it calls
\* CheckResize
LkProbe ==
    /\ rcPc = "select"
    /\ resizeCheck > 0
    /\ resizeCheck' = resizeCheck - 1
    /\ inputs' = inputs + 1
    /\ rcPc' = IF (inputs + 1) % ProbeThreshold = 0 THEN "lock" ELSE "select"
    /\ UNCHANGED <<hm, now, open, aofVars, clientVars, reopens, lockVars,
                   srvVars, cmpVars, limVars, mutVars>>

\* CheckResize: hm.mutex.Lock
LkResizeLock ==
    /\ rcPc = "lock"
    /\ CanLock(mutex)
    /\ mutex' = [mutex EXCEPT !.w = "resize"]
    /\ rcPc' = "resize"
    /\ UNCHANGED <<hm, now, open, aofVars, inputs, resizeCheck, clientVars, reopens,
                   basketLocks, loc, gh, snap, srvVars, cmpVars, limVars, mutVars>>

\* CheckResize under the lock, the deferred Unlock, inputs = 0
LkResize ==
    /\ rcPc = "resize"
    /\ hm' = CheckResize(hm)
    /\ mutex' = [mutex EXCEPT !.w = ""]
    /\ inputs' = 0
    /\ rcPc' = "select"
    /\ UNCHANGED <<now, open, aofVars, resizeCheck, clientVars, reopens,
                   basketLocks, loc, gh, snap, srvVars, cmpVars, limVars, mutVars>>

\* Loop, case <-a.compressing: createCompressedAOF calls
\* GetAllEntriesAndCompress, which takes hm.mutex.Lock
LkSnapshotLock ==
    /\ loopPc = "run"
    /\ rcPc = "sending"
    /\ CanLock(mutex)
    /\ mutex' = [mutex EXCEPT !.w = "snapshot"]
    /\ loopPc' = "snapshot"
    /\ UNCHANGED <<hm, now, open, com, comClosed, sent, buf, disk, rcVars, clientVars,
                   reopens, basketLocks, loc, gh, snap, srvVars, cmpVars, limVars, mutVars>>

\* GetAllEntriesAndCompress under the lock and its deferred Unlock
LkSnapshot ==
    /\ loopPc = "snapshot"
    /\ snap' = GetAllEntriesAndCompress(hm)
    /\ mutex' = [mutex EXCEPT !.w = ""]
    /\ loopPc' = "compress"
    /\ UNCHANGED <<hm, now, open, com, comClosed, sent, buf, disk, rcVars, clientVars,
                   reopens, basketLocks, loc, gh, srvVars, cmpVars, limVars, mutVars>>

\* the rest of createCompressedAOF: the file is replaced by the snapshot's
LkCompress ==
    /\ loopPc = "compress"
    /\ disk' = CompressedFile(snap)
    /\ buf' = <<>>
    /\ snap' = <<>>
    /\ loopPc' = "run"
    /\ rcPc' = "store"
    /\ UNCHANGED <<hm, now, open, com, comClosed, sent, inputs, resizeCheck, clientVars,
                   reopens, mutex, basketLocks, loc, gh, srvVars, cmpVars, limVars, mutVars>>

\* a fresh database, or one opened on the log that makes a compaction due
InitLock ==
    /\ \E file \in InitLogs, m \in CpuMultipliers :
         /\ disk = file
         /\ hm = NewHashMapWith(file, StartTime, m)
         /\ resizeCheck = ReplayProbes(file)
         /\ opsLeft = IF file = <<>> THEN MaxLockOps ELSE MaxSnapshotOps
         /\ basketLocks = [i \in 0..(LowerPowerOfTwo(CpuCount * m) - 1) |-> NoLock]
    /\ now = StartTime
    /\ open = TRUE
    /\ com = <<>>
    /\ comClosed = FALSE
    /\ sent = 0
    /\ buf = <<>>
    /\ loopPc = "run"
    /\ rcPc = "select"
    /\ inputs = 0
    /\ pc = [p \in Procs |-> "idle"]
    /\ op = [p \in Procs |-> NoOp]
    /\ ret = [p \in Procs |-> NoRet]
    /\ reopens = 0
    /\ SrvIdle
    /\ InitCmpIdle
    /\ LimIdle
    /\ mutex = NoLock
    /\ loc = [p \in Procs |-> NoLocals]
    /\ gh = [written |-> [k \in Keys |-> {}], inserted |-> {}, deleting |-> {}]
    /\ snap = <<>>
    /\ MutIdle

NextLock ==
    \/ \E p \in Procs : LkCall(p)
    \/ \E p \in Procs : LkRLock(p)
    \/ \E p \in Procs : LkBasketLock(p)
    \/ \E p \in Procs : LkScan(p)
    \/ \E p \in Procs : LkLink(p)
    \/ \E p \in Procs : LkUnlock(p)
    \/ LkProbe
    \/ LkResizeLock
    \/ LkResize
    \/ RCTick
    \/ LkSnapshotLock
    \/ LkSnapshot
    \/ LkCompress
    \/ RCStore

SpecLock == InitLock /\ [][NextLock]_vars

\* ------------------------------------------------ growth of the table
\* A database opened on a log of Sets: NewHashMap starts the growth monitor,
\* replays the log (every replayed Set sends a probe) and the monitor works
\* the probes off, checking the load at every ProbeThreshold-th.

\* the longest log of this workload, in records
MaxGrowRecords == 4

GrowKeys == {<<97>>, <<98>>, <<99>>, <<100>>}

\* Set(0, key, "7") and Set(1, key, "x")
GrowRecords ==
    {Data(ActSet, k, <<55>>, 0) : k \in GrowKeys} \cup {Data(ActSet, k, <<120>>, 1) : k \in GrowKeys}

GrowLogs ==
    {Frames(recs) : recs \in UNION {[1..n -> GrowRecords] : n \in 0..MaxGrowRecords}}

InitGrow == \E file \in GrowLogs : InitWith(file, 0)

NextGrow == RCProbe

SpecGrow == InitGrow /\ [][NextGrow]_vars

\* ------------------------------------------------------ replay of a cut log
\* A process starts on a log file whose writer stopped anywhere: the file is
\* the frames of up to MaxReplayRecords records and then one more frame cut
\* at any byte; one of the records is of an action the table does not know.
ActNop == <<110, 111, 112>>                         \* "nop"

ReplayRecords ==
    { Data(ActSet, <<97>>, <<55>>, 0), Data(ActSet, <<99>>, <<55>>, 0),
      Data(ActDel, <<97>>, EmptyStr, 0), Data(ActIncr, <<97>>, <<55>>, 0),
      Data(ActNop, <<97>>, <<56>>, 0) }

ReplayLogs ==
    UNION { [1..n -> ReplayRecords] : n \in 0..MaxReplayRecords }

\* the frames of a log followed by a proper prefix of one more frame
CutLogs ==
    UNION { UNION { { Frames(recs) \o SubSeq(writeFrame(d), 1, n) :
                        n \in 0..(Len(writeFrame(d)) - 1) } : d \in ReplayRecords } :
            recs \in ReplayLogs }

InitReplay ==
    /\ \E file \in CutLogs : disk = file
    /\ now = StartTime
    /\ hm = EmptyHashMap(StartTime)
    /\ open = FALSE
    /\ com = <<>>
    /\ comClosed = TRUE
    /\ sent = 0
    /\ buf = <<>>
    /\ loopPc = "quit"
    /\ rcPc = "done"
    /\ inputs = 0
    /\ resizeCheck = 0
    /\ pc = [p \in Procs |-> "idle"]
    /\ op = [p \in Procs |-> NoOp]
    /\ ret = [p \in Procs |-> NoRet]
    /\ opsLeft = 0
    /\ reopens = 0
    /\ SrvIdle /\ InitCmpIdle /\ LimIdle /\ LockIdle /\ MutIdle

NextReplay == Reopen

SpecReplay == InitReplay /\ [][NextReplay]_vars

\* ------------------------------------------------- strings (package strings)
DotBin == <<46, 98, 105, 110>>                      \* ".bin"
DotApikey == <<46, 97, 112, 105, 107, 101, 121>>    \* ".apikey"
DotStr == <<46>>                                    \* "."
SlashStr == <<47>>                                  \* "/"
DbStr == <<100, 98>>                                \* "db"

ToUpper(s) == [i \in 1..Len(s) |-> IF s[i] >= 97 /\ s[i] <= 122 THEN s[i] - 32 ELSE s[i]]

HasSuffix(s, suffix) ==
    /\ Len(s) >= Len(suffix)
    /\ SubSeq(s, Len(s) - Len(suffix) + 1, Len(s)) = suffix

TrimSuffix(s, suffix) ==
    IF HasSuffix(s, suffix) THEN SubSeq(s, 1, Len(s) - Len(suffix)) ELSE s

\* strings.Trim(s, cutset) for a one-byte cutset
RECURSIVE Trim(_, _)
Trim(s, cutset) ==
    IF s = <<>> THEN s
    ELSE IF Head(s) = cutset[1] THEN Trim(Tail(s), cutset)
    ELSE IF s[Len(s)] = cutset[1] THEN Trim(SubSeq(s, 1, Len(s) - 1), cutset)
    ELSE s

\* the first position of byte b in s, 0 when it is absent
IndexByte(s, b) ==
    IF \E i \in 1..Len(s) : s[i] = b
    THEN CHOOSE i \in 1..Len(s) : s[i] = b /\ \A j \in 1..(i - 1) : s[j] # b
    ELSE 0

\* strings.Split(s, sep) for a one-byte separator
RECURSIVE Split(_, _)
Split(s, sep) ==
    LET i == IndexByte(s, sep[1])
    IN IF i = 0 THEN <<s>>
       ELSE <<SubSeq(s, 1, i - 1)>> \o Split(SubSeq(s, i + 1, Len(s)), sep)

\* byte-wise order of two strings, the order os.ReadDir lists names in
RECURSIVE LexLess(_, _)
LexLess(a, b) ==
    IF b = <<>> THEN FALSE
    ELSE IF a = <<>> THEN TRUE
    ELSE IF Head(a) # Head(b) THEN Head(a) < Head(b)
    ELSE LexLess(Tail(a), Tail(b))

\* os.ReadDir: the names of a directory, sorted
RECURSIVE ReadDir(_)
ReadDir(dir) ==
    IF DOMAIN dir = {} THEN <<>>
    ELSE LET first == CHOOSE f \in DOMAIN dir : \A g \in DOMAIN dir : g = f \/ LexLess(f, g)
         IN <<first>> \o ReadDir([g \in (DOMAIN dir) \ {first} |-> dir[g]])

\* ------------------------------------------------------ package utils
IsAlnum(b) == (b >= 48 /\ b <= 57) \/ (b >= 65 /\ b <= 90) \/ (b >= 97 /\ b <= 122)

\* DbNameRegex ^[a-zA-Z0-9]{1,100}$
CheckDbName(name) ==
    /\ Len(name) >= 1
    /\ Len(name) <= MaxNameLen
    /\ \A i \in 1..Len(name) : IsAlnum(name[i])

HealthPath == <<47, 104, 101, 97, 108, 116, 104>>          \* "/health"
MetricsPath == <<47, 109, 101, 116, 114, 105, 99, 115>>    \* "/metrics"
CreatePath == <<47, 99, 114, 101, 97, 116, 101>>           \* "/create"
KeysStr == <<107, 101, 121, 115>>                          \* "keys"

IsPublicPath(path) ==
    path = HealthPath \/ path = MetricsPath \/ path = CreatePath \/ path = SlashStr

\* a position-weighted byte sum
WeightedSum(s) == SumBytes([i \in 1..Len(s) |-> i * s[i]])

\* sha256.Sum256, stood in for by a digest of two bytes that tells apart every
\* pair of tokens the requests present
Sum256(s) == <<WeightedSum(s) % 256, Len(s) % 256>>

\* subtle.ConstantTimeCompare
ConstantTimeCompare(x, y) ==
    IF Len(x) # Len(y) THEN 0
    ELSE IF \A i \in 1..Len(x) : x[i] = y[i] THEN 1 ELSE 0

\* a lookup that compares the name as it was given
IsApiKeyValidExactCase(keys, db, apiKey) ==
    LET hash == Sum256(apiKey)
    IN IF db \in DOMAIN keys THEN ConstantTimeCompare(keys[db], hash) = 1 ELSE FALSE

\* Utils.IsApiKeyValid on the credential map keys
IsApiKeyValid(keys, db, apiKey) ==
    LET name == ToUpper(db)
        hash == Sum256(apiKey)
    IN IF name \in DOMAIN keys THEN ConstantTimeCompare(keys[name], hash) = 1 ELSE FALSE

HexDigit(n) == IF n < 10 THEN 48 + n ELSE 87 + n

\* hex.EncodeToString
EncodeToString(bytes) ==
    [i \in 1..(2 * Len(bytes)) |->
        LET b == bytes[(i + 1) \div 2]
        IN IF i % 2 = 1 THEN HexDigit(b \div 16) ELSE HexDigit(b % 16)]

\* Utils.CreateRandomApiKey when rand.Read delivers the bytes random
CreateRandomApiKey(random) ==
    LET apiKeyStr == EncodeToString(random)
    IN [apiKeyStr |-> apiKeyStr, hash |-> Sum256(apiKeyStr)]

\* the sidecar file of a database
ApikeyFile(db) == DotStr \o db \o DotApikey

\* Utils.SaveApiKey: the map entry, then the sidecar file (created or truncated)
SaveApiKey(w, db, apiKey) ==
    LET name == ToUpper(db)
    IN [w EXCEPT !.apiKeys = MapPut(@, name, apiKey),
                 !.folder = MapPut(@, ApikeyFile(name), apiKey)]

\* Utils.ReadApiKey
ReadApiKey(w, db) ==
    LET path == ApikeyFile(ToUpper(db))
    IN IF path \in DOMAIN w.folder
       THEN [ok |-> TRUE, apiKey |-> w.folder[path]]
       ELSE [ok |-> FALSE, apiKey |-> <<>>]

\* the loop of Utils.RestoreApiKeys over the directory listing files
RECURSIVE RestoreFrom(_, _)
RestoreFrom(w, files) ==
    IF files = <<>> THEN [ok |-> TRUE, w |-> w]
    ELSE IF ~HasSuffix(Head(files), DotApikey) THEN RestoreFrom(w, Tail(files))
    ELSE LET db == TrimSuffix(Head(files), DotApikey)
             r == ReadApiKey(w, db)
         IN IF ~r.ok THEN [ok |-> FALSE, w |-> w]
            ELSE RestoreFrom(SaveApiKey(w, db, r.apiKey), Tail(files))

RestoreApiKeys(w) == RestoreFrom(w, ReadDir(w.folder))

\* ---------------------------------------------------- package restartcheck
RECURSIVE CheckFrom(_)
CheckFrom(d) ==
    IF d = <<>> THEN <<>>
    ELSE IF ~HasSuffix(Head(d), DotBin) THEN CheckFrom(Tail(d))
    ELSE <<Split(Head(d), DotStr)[1]>> \o CheckFrom(Tail(d))

\* RestartCheck.Check
Check(w) == CheckFrom(ReadDir(w.folder))

\* ------------------------------------------------------ package server
\* The operators below work on w, the server's registry, the credential
\* map, the folder and the random source taken together.

\* NewAOF's file name, relative to DB_FOLDER
LogFile(file) == file \o DotBin

\* Server.DBExists
DBExists(w, name) == ToUpper(name) \in DOMAIN w.dbs

\* a CreateApiKey whose random source delivers the same bytes again
CreateApiKeyRepeating(w, db) ==
    LET k == CreateRandomApiKey(<<0>>)
    IN [w |-> SaveApiKey([w EXCEPT !.rand = @ + 1], db, k.hash), apikey |-> k.apiKeyStr]

\* Server.CreateApiKey; rand.Read delivers bytes it has not delivered before
CreateApiKey(w, db) ==
    LET k == CreateRandomApiKey(<<w.rand>>)
    IN [w |-> SaveApiKey([w EXCEPT !.rand = @ + 1], db, k.hash), apikey |-> k.apiKeyStr]

\* NewHashMap(name) and its entry in s.dbs: NewHashMap replays the log file
\* of that name if the folder has one, AOF.Start creates the file if it has
\* none
Register(w, name, t) ==
    LET file == LogFile(name)
        content == IF file \in DOMAIN w.folder THEN w.folder[file] ELSE <<>>
    IN [w EXCEPT !.folder = MapPut(@, file, content),
                 !.dbs = MapPut(@, ToUpper(name),
                                [hm |-> NewHashMap(content, t), FileName |-> file])]

\* what NewDB returns after CreateApiKey
Created(r) == [w |-> r.w, exists |-> FALSE, created |-> TRUE, apikey |-> r.apikey]

\* the credential of a database just registered, if credentials are enabled
WithApiKey(w, name, auth) ==
    Created(IF auth THEN CreateApiKey(w, name) ELSE [w |-> w, apikey |-> EmptyStr])

\* a NewDB that registers the name without looking it up first
NewDBNoLookup(w, name, t, auth) == WithApiKey(Register(w, name, t), name, auth)

\* Server.NewDB at second t
NewDB(w, name, t, auth) ==
    IF DBExists(w, name)
    THEN [w |-> w, exists |-> TRUE, created |-> FALSE, apikey |-> EmptyStr]
    ELSE WithApiKey(Register(w, name, t), name, auth)

\* Server.CheckEntries(name)
CheckEntriesOf(w, name) ==
    IF ToUpper(name) \in DOMAIN w.dbs
    THEN w.dbs[ToUpper(name)].hm.Entries < MaxEntries
    ELSE FALSE

\* a table operation of a registered database with its record in the log file
Logged(w, db, r, d) ==
    LET name == ToUpper(db)
    IN [w |-> [w EXCEPT !.dbs[name].hm = r.hm,
                        !.folder[w.dbs[name].FileName] = @ \o writeFrame(d)],
        ok |-> r.ok]

\* Server.Set, Server.SetNX, Server.Incr, Server.Del and Server.Get by kind
Operate(w, kind, db, key, value, t) ==
    LET name == ToUpper(db)
        h == w.dbs[name].hm
    IN IF name \notin DOMAIN w.dbs THEN [w |-> w, ok |-> FALSE]
       ELSE IF kind = "set"
       THEN IF ~CheckEntriesOf(w, db) THEN [w |-> w, ok |-> FALSE]
            ELSE Logged(w, db, Set(h, t, 0, key, value), Data(ActSet, key, value, 0))
       ELSE IF kind = "setnx"
       THEN IF ~CheckEntriesOf(w, db) THEN [w |-> w, ok |-> FALSE]
            ELSE IF Get(h, key).found THEN [w |-> w, ok |-> FALSE]
            ELSE Logged(w, db, Set(h, t, 0, key, value), Data(ActSet, key, value, 0))
       ELSE IF kind = "incr"
       THEN Logged(w, db, Incr(h, t, 0, key, value), Data(ActIncr, key, value, 0))
       ELSE IF kind = "del"
       THEN Logged(w, db, Del(h, key), Data(ActDel, key, EmptyStr, 0))
       ELSE [w |-> w, ok |-> Get(h, key).found]

\* a DBDelete that leaves the log file in the folder
DBDeleteKeepFile(w, name) == [w EXCEPT !.dbs = MapDelete(@, ToUpper(name))]

\* Server.DBDelete
DBDelete(w, name) ==
    [w EXCEPT !.folder = MapDelete(@, w.dbs[ToUpper(name)].FileName),
              !.dbs = MapDelete(@, ToUpper(name))]

\* the loop of ReloadDb over the names Check found
RECURSIVE NewDBs(_, _, _, _)
NewDBs(w, names, t, auth) ==
    IF names = <<>> THEN w
    ELSE NewDBs(NewDB(w, Head(names), t, auth).w, Tail(names), t, auth)

\* Server.ReloadDb
ReloadDb(w, t, auth) ==
    LET names == Check(w)
        r == IF auth THEN RestoreApiKeys(w) ELSE [ok |-> TRUE, w |-> w]
    IN IF ~r.ok THEN [ok |-> FALSE, w |-> r.w]
       ELSE [ok |-> TRUE, w |-> NewDBs(r.w, names, t, auth)]

\* a response of either wire surface
Resp(w, code, executed, exists, created, apikey) ==
    [w |-> w, code |-> code, executed |-> executed, exists |-> exists,
     created |-> created, apikey |-> apikey]

\* the request paths of the HTTP routes
HttpPath(kind, db) ==
    IF kind = "index" THEN SlashStr
    ELSE IF kind = "health" THEN HealthPath
    ELSE IF kind = "metrics" THEN MetricsPath
    ELSE IF kind = "create" THEN CreatePath
    ELSE IF kind \in {"get", "del"}
    THEN SlashStr \o DbStr \o SlashStr \o db \o SlashStr \o KeysStr
    ELSE SlashStr \o DbStr \o SlashStr \o db

\* the database name of a path: /db/<name>[/...]
PathDbName(path) ==
    LET parts == Split(Trim(path, SlashStr), SlashStr)
    IN IF Len(parts) >= 2 /\ parts[1] = DbStr THEN parts[2] ELSE EmptyStr

\* rootHandler: which mux serves the request, or the status it is refused with
RootHandler(keys, auth, path, key) ==
    IF IsPublicPath(path) THEN "public"
    ELSE IF ~auth THEN "private"
    ELSE LET dbName == PathDbName(path)
         IN IF ~CheckDbName(dbName) THEN "400"
            ELSE IF key = EmptyStr \/ ~IsApiKeyValid(keys, dbName, key) THEN "401"
            ELSE "private"

\* Server.bootstrap: the status it stops the request with, "" when it passes
Bootstrap(w, dbname) ==
    IF ~CheckDbName(dbname) THEN "400"
    ELSE IF ~DBExists(w, dbname) THEN "404"
    ELSE ""

\* the response to a create request
CreatedResp(r, existsCode, createdCode) ==
    Resp(r.w, IF r.exists THEN existsCode ELSE createdCode, TRUE,
         r.exists, r.created, r.apikey)

\* the response to a rotation
RotatedResp(r) == Resp(r.w, "200", TRUE, TRUE, FALSE, r.apikey)

\* the response to a table operation
OperatedResp(r) == Resp(r.w, IF r.ok THEN "200" ELSE "409", TRUE, TRUE, FALSE, EmptyStr)

\* the handlers of publicMux: Index, HealthHandler, the metrics page, CreateDB
PublicMux(w, kind, name, auth, t) ==
    IF kind = "create"
    THEN IF ~CheckDbName(name) THEN Resp(w, "400", TRUE, FALSE, FALSE, EmptyStr)
              ELSE CreatedResp(NewDB(w, name, t, auth), "409", "201")
    ELSE Resp(w, "200", TRUE, FALSE, FALSE, EmptyStr)

\* the handlers of privateMux: DB, SetValue, DeleteValue, GetValue,
\* ChangeApiKey, DeleteDB
PrivateMux(w, kind, dbname, key, value, auth, t) ==
    IF kind = "exists"
    THEN IF ~CheckDbName(dbname) THEN Resp(w, "400", TRUE, FALSE, FALSE, EmptyStr)
         ELSE Resp(w, IF DBExists(w, dbname) THEN "200" ELSE "404", TRUE,
                   DBExists(w, dbname), FALSE, EmptyStr)
    ELSE IF kind = "rotate" /\ ~auth THEN Resp(w, "503", TRUE, FALSE, FALSE, EmptyStr)
    ELSE IF Bootstrap(w, dbname) # "" THEN Resp(w, Bootstrap(w, dbname), TRUE, FALSE, FALSE, EmptyStr)
    ELSE IF kind = "rotate"
    THEN RotatedResp(CreateApiKey(w, dbname))
    ELSE IF kind = "deletedb"
    THEN Resp(DBDelete(w, dbname), "200", TRUE, FALSE, FALSE, EmptyStr)
    ELSE OperatedResp(Operate(w, kind, dbname, key, value, t))

\* one HTTP request through rootHandler
HttpServe(w, kind, db, token, key, value, auth, t) ==
    LET path == HttpPath(kind, db)
        mux == RootHandler(w.apiKeys, auth, path, token)
    IN IF mux = "public" THEN PublicMux(w, kind, db, auth, t)
       ELSE IF mux = "private" THEN PrivateMux(w, kind, PathDbName(path), key, value, auth, t)
       ELSE Resp(w, mux, FALSE, FALSE, FALSE, EmptyStr)

\* one call of KVService: CreateDB, Set, SetNX, Incr, Get, Delete, Exists
GrpcServe(w, kind, db, token, key, value, auth, t) ==
    IF ~CheckDbName(db) THEN Resp(w, "InvalidArgument", FALSE, FALSE, FALSE, EmptyStr)
    ELSE IF kind = "create"
    THEN CreatedResp(NewDB(w, db, t, auth), "OK", "OK")
    ELSE IF kind = "exists"
    THEN Resp(w, "OK", TRUE, DBExists(w, db), FALSE, EmptyStr)
    ELSE IF auth /\ ~IsApiKeyValid(w.apiKeys, db, token)
    THEN Resp(w, "Unauthenticated", FALSE, FALSE, FALSE, EmptyStr)
    ELSE Resp(Operate(w, kind, db, key, value, t).w, "OK", TRUE, DBExists(w, db),
              FALSE, EmptyStr)

\* ----------------------------------------------------- the server process
PublicKinds == {"index", "health", "metrics", "create"}
DbKinds == {"set", "setnx", "incr", "get", "del", "exists", "deletedb", "rotate"}
GrpcKinds == {"create", "set", "setnx", "incr", "get", "del", "exists"}

\* "a", "A", "b" and "-"
NameInputs == {<<97>>, <<65>>, <<98>>, <<45>>}
\* no token, and every token the random source can deliver
TokenInputs == {EmptyStr} \cup {EncodeToString(<<r>>) : r \in 0..(MaxRand - 1)}

World == [dbs |-> dbs, apiKeys |-> apiKeys, folder |-> folder, rand |-> randNext]

Becomes(w) ==
    /\ dbs' = w.dbs
    /\ apiKeys' = w.apiKeys
    /\ folder' = w.folder
    /\ randNext' = w.rand

\* the entry count ListDBs shows for a database, 0 for a name it does not list
ListedEntries(db) ==
    IF ToUpper(db) \in DOMAIN dbs THEN dbs[ToUpper(db)].hm.Entries ELSE 0

\* the request, its response, and the entry count of its database as the
\* request found it
Answer(surface, kind, db, token, r) ==
    /\ r.w.rand <= MaxRand
    /\ Becomes(r.w)
    /\ last' = [surface |-> surface, kind |-> kind, db |-> db, token |-> token,
                executed |-> r.executed, code |-> r.code, exists |-> r.exists,
                created |-> r.created, apikey |-> r.apikey,
                entries |-> ListedEntries(db)]

CanServe == up /\ reqLeft > 0

\* a request of the HTTP surface
HttpRequest ==
    /\ CanServe
    /\ reqLeft' = reqLeft - 1
    /\ \E kind \in PublicKinds \cup DbKinds, db \in NameInputs, token \in TokenInputs :
         /\ kind \in {"index", "health", "metrics"} => db = <<97>>
         /\ kind \in PublicKinds => token = EmptyStr
         /\ Answer("http", kind, db, token,
                   HttpServe(World, kind, db, token, RegKey, RegValue, apikeyEnabled, now))
    /\ UNCHANGED <<dbVars, up, apikeyEnabled, cmpVars, limVars, lockVars, mutVars>>

\* a call of the gRPC surface
GrpcRequest ==
    /\ CanServe
    /\ reqLeft' = reqLeft - 1
    /\ \E kind \in GrpcKinds, db \in NameInputs, token \in TokenInputs :
         /\ kind = "create" => token = EmptyStr
         /\ Answer("grpc", kind, db, token,
                GrpcServe(World, kind, db, token, RegKey, RegValue, apikeyEnabled, now))
    /\ UNCHANGED <<dbVars, up, apikeyEnabled, cmpVars, limVars, lockVars, mutVars>>

\* main on a signal: Shutdown, CloseDbs, and the process ends with its memory
Shutdown ==
    /\ up
    /\ reqLeft > 0
    /\ reqLeft' = reqLeft - 1
    /\ up' = FALSE
    /\ dbs' = EmptyMap
    /\ apiKeys' = EmptyMap
    /\ last' = NoRequest
    /\ UNCHANGED <<dbVars, folder, randNext, apikeyEnabled, cmpVars, limVars, lockVars, mutVars>>

\* what Start logs of ReloadDb
ReloadedResp(r) == Resp(r.w, IF r.ok THEN "OK" ELSE "error", TRUE, FALSE, FALSE, EmptyStr)

\* a new process: NewServer and Server.Start up to ListenAndServe
Start ==
    /\ ~up
    /\ Answer("start", "reload", EmptyStr, EmptyStr,
              ReloadedResp(ReloadDb(World, now, apikeyEnabled)))
    /\ up' = TRUE
    /\ UNCHANGED <<dbVars, apikeyEnabled, reqLeft, cmpVars, limVars, lockVars, mutVars>>

\* A server started on an empty folder, with or without authentication, its
\* clients on both surfaces, and restarts.
InitReg ==
    /\ InitDb(<<>>, 0)
    /\ dbs = EmptyMap
    /\ apiKeys = EmptyMap
    /\ folder = EmptyMap
    /\ randNext = 0
    /\ up = TRUE
    /\ apikeyEnabled \in BOOLEAN
    /\ last = NoRequest
    /\ reqLeft = MaxRequests
    /\ InitCmpIdle
    /\ LimIdle
    /\ LockIdle
    /\ MutIdle

NextReg ==
    \/ HttpRequest
    \/ GrpcRequest
    \/ Shutdown
    \/ Start

SpecReg == InitReg /\ [][NextReg]_vars

\* ------------------------------------------- Server.mut, lock call by lock call
\* sync.RWMutex: RLock adds the caller to readerCount and blocks while a
\* writer is inside or has announced itself (Lock subtracts rwmutexMaxReaders
\* before it waits for the readers that are inside); Unlock lets every
\* reader that arrived meanwhile in before the next writer; writers queue
\* on rw.w, so one at a time announces itself
MutKinds == {"set", "setnx", "create", "delete", "rotate", "closeall"}
\* "a" and "A"
MutNames == {<<97>>, <<65>>}

\* the place of each s.mut.RLock call: Set and SetNX, CheckEntries, DBExists
ReadSites == {"rlock", "check", "exists"}
\* the place of each s.mut.Lock call: NewDB, CreateApiKey, DBDelete, CloseDbs
WriteSites == {"reglock", "keylock", "dlock", "clock"}

\* where a caller is once it has the lock it asked for at site
Inside(site) ==
    CASE site = "rlock" -> "check"
      [] site = "check" -> "checked"
      [] site = "exists" -> "looked"
      [] site = "reglock" -> "register"
      [] site = "keylock" -> "savekey"
      [] site = "dlock" -> "delete"
      [] site = "clock" -> "closeall"

\* goroutine u is blocked in RLock, in Lock
ReadWaits(u) == thr[u].pc \in ReadSites /\ thr[u].blocked
WriteWaits(u) == thr[u].pc \in WriteSites /\ thr[u].blocked

\* the first lock call of a call of kind
FirstSite(kind) ==
    CASE kind \in {"set", "setnx"} -> "rlock"
      [] kind = "create" -> "exists"
      [] kind = "delete" -> "dlock"
      [] kind = "rotate" -> "keylock"
      [] kind = "closeall" -> "clock"

\* a request handler calls Server.Set, SetNX, NewDB, DBDelete, CreateApiKey
\* or CloseDbs; DeleteDB and ChangeApiKey have passed bootstrap, which found
\* the database registered, and ChangeApiKey answers 503 without credentials
MutCall(t) ==
    /\ thr[t].pc = "idle"
    /\ mutLeft > 0
    /\ mutLeft' = mutLeft - 1
    /\ \E kind \in MutKinds, name \in MutNames :
         /\ kind \in {"delete", "rotate"} => DBExists(World, name)
         /\ kind = "rotate" => apikeyEnabled
         /\ thr' = [thr EXCEPT ![t] = [IdleThread EXCEPT !.pc = FirstSite(kind),
                                                         !.kind = kind, !.name = name]]
    /\ UNCHANGED <<smut, tally, dbVars, srvVars, cmpVars, limVars, lockVars>>

\* RWMutex.RLock returns at once
RLockFree(m) == m.writer = NoThread /\ m.pending = NoThread

\* s.mut.RLock()
MutRLock(t) ==
    /\ thr[t].pc \in ReadSites
    /\ ~thr[t].blocked
    /\ IF RLockFree(smut)
       THEN /\ smut' = [smut EXCEPT !.readers = @ + 1]
            /\ thr' = [thr EXCEPT ![t].pc = Inside(@)]
       ELSE /\ thr' = [thr EXCEPT ![t].blocked = TRUE]
            /\ UNCHANGED smut
    /\ UNCHANGED <<tally, mutLeft, dbVars, srvVars, cmpVars, limVars, lockVars>>

\* s.mut.Lock(): the caller has rw.w, announces itself, and is inside when
\* no reader is
MutLock(t) ==
    /\ thr[t].pc \in WriteSites
    /\ ~thr[t].blocked
    /\ smut.writer = NoThread
    /\ smut.pending = NoThread
    /\ IF smut.readers = 0
       THEN /\ smut' = [smut EXCEPT !.writer = t]
            /\ thr' = [thr EXCEPT ![t].pc = Inside(@)]
       ELSE /\ smut' = [smut EXCEPT !.pending = t]
            /\ thr' = [thr EXCEPT ![t].blocked = TRUE]
    /\ UNCHANGED <<tally, mutLeft, dbVars, srvVars, cmpVars, limVars, lockVars>>

\* the last reader's RUnlock has woken the waiting writer
MutGranted(t) ==
    /\ WriteWaits(t)
    /\ smut.pending = t
    /\ smut.readers = 0
    /\ smut' = [smut EXCEPT !.writer = t, !.pending = NoThread]
    /\ thr' = [thr EXCEPT ![t].pc = Inside(@), ![t].blocked = FALSE]
    /\ UNCHANGED <<tally, mutLeft, dbVars, srvVars, cmpVars, limVars, lockVars>>

\* s.mut.Unlock() by t, which goes on at pc with its results in r: every
\* reader that blocked meanwhile is inside
Unlocked(t, r) ==
    /\ smut' = [readers |-> Cardinality({u \in MutThreads : ReadWaits(u)}),
                writer |-> NoThread, pending |-> NoThread]
    /\ thr' = [u \in MutThreads |->
                 IF u = t THEN r
                 ELSE IF ReadWaits(u)
                 THEN [thr[u] EXCEPT !.pc = Inside(@), !.blocked = FALSE]
                 ELSE thr[u]]

\* CheckEntries: the lookup, the comparison, RUnlock
MutCheckEntries(t) ==
    /\ thr[t].pc = "checked"
    /\ smut' = [smut EXCEPT !.readers = @ - 1]
    /\ thr' = [thr EXCEPT ![t].pc = "apply", ![t].ok = CheckEntriesOf(World, thr[t].name)]
    /\ UNCHANGED <<tally, mutLeft, dbVars, srvVars, cmpVars, limVars, lockVars>>

\* the rest of Server.Set and Server.SetNX: the table operation and RUnlock
MutSet(t) ==
    /\ thr[t].pc = "apply"
    /\ LET r == IF thr[t].ok
                THEN Operate(World, thr[t].kind, thr[t].name, <<97>>, <<55>>, now)
                ELSE [w |-> World, ok |-> FALSE]
       IN /\ Becomes(r.w)
          /\ thr' = [thr EXCEPT ![t].pc = "idle", ![t].ok = r.ok]
    /\ smut' = [smut EXCEPT !.readers = @ - 1]
    /\ UNCHANGED <<tally, mutLeft, up, apikeyEnabled, last, reqLeft, dbVars, cmpVars, limVars,
                   lockVars>>

\* DBExists inside NewDB: the lookup and RUnlock; NewDB returns exists if
\* the name is registered
MutDBExists(t) ==
    /\ thr[t].pc = "looked"
    /\ smut' = [smut EXCEPT !.readers = @ - 1]
    /\ thr' = [thr EXCEPT ![t].pc = IF DBExists(World, thr[t].name) THEN "idle" ELSE "newhm",
                          ![t].ok = ~DBExists(World, thr[t].name)]
    /\ UNCHANGED <<tally, mutLeft, dbVars, srvVars, cmpVars, limVars, lockVars>>

\* hashMap.NewHashMap(name) inside NewDB, under no lock: the table is built
\* from the log file of that name and its writer started on it
MutNewHashMap(t) ==
    /\ thr[t].pc = "newhm"
    /\ LET file == LogFile(thr[t].name)
           content == IF file \in DOMAIN folder THEN folder[file] ELSE <<>>
       IN /\ folder' = MapPut(folder, file, content)
          /\ thr' = [thr EXCEPT ![t].pc = "reglock", ![t].hm = NewHashMap(content, now)]
    /\ tally' = [tally EXCEPT !.built = @ + 1]
    /\ UNCHANGED <<smut, mutLeft, dbs, apiKeys, randNext, up, apikeyEnabled, last, reqLeft,
                   dbVars, cmpVars, limVars, lockVars>>

\* s.dbs[strings.ToUpper(name)] = hm and Unlock; without credentials NewDB
\* returns created
MutRegister(t) ==
    /\ thr[t].pc = "register"
    /\ dbs' = MapPut(dbs, ToUpper(thr[t].name),
                     [hm |-> thr[t].hm, FileName |-> LogFile(thr[t].name)])
    /\ Unlocked(t, [thr[t] EXCEPT !.pc = IF apikeyEnabled THEN "keylock" ELSE "idle",
                                  !.created = ~apikeyEnabled])
    /\ tally' = IF apikeyEnabled THEN tally ELSE [tally EXCEPT !.created = @ + 1]
    /\ UNCHANGED <<mutLeft, apiKeys, folder, randNext, up, apikeyEnabled, last, reqLeft,
                   dbVars, cmpVars, limVars, lockVars>>

\* the body of CreateApiKey and Unlock: NewDB returns created with the
\* token, ChangeApiKey returns the token
MutCreateApiKey(t) ==
    /\ thr[t].pc = "savekey"
    /\ LET r == CreateApiKey(World, thr[t].name)
       IN /\ Becomes(r.w)
          /\ Unlocked(t, [thr[t] EXCEPT !.pc = "idle", !.apikey = r.apikey,
                                        !.created = (thr[t].kind = "create")])
    /\ tally' = IF thr[t].kind = "create" THEN [tally EXCEPT !.created = @ + 1]
                ELSE [tally EXCEPT !.rotated = @ + 1]
    /\ UNCHANGED <<mutLeft, up, apikeyEnabled, last, reqLeft, dbVars, cmpVars, limVars,
                   lockVars>>

\* the body of DBDelete and Unlock; on a name that is registered no more
\* s.dbs[...] is nil, Close panics, the deferred Unlock runs and net/http
\* recovers
MutDBDelete(t) ==
    /\ thr[t].pc = "delete"
    /\ IF DBExists(World, thr[t].name)
       THEN /\ Becomes(DBDelete(World, thr[t].name))
            /\ tally' = [tally EXCEPT !.deleted = @ + 1]
       ELSE UNCHANGED <<dbs, apiKeys, folder, randNext, tally>>
    /\ Unlocked(t, [thr[t] EXCEPT !.pc = "idle", !.ok = DBExists(World, thr[t].name)])
    /\ UNCHANGED <<mutLeft, up, apikeyEnabled, last, reqLeft, dbVars, cmpVars, limVars,
                   lockVars>>

\* the body of CloseDbs and Unlock
MutCloseDbs(t) ==
    /\ thr[t].pc = "closeall"
    /\ Unlocked(t, [thr[t] EXCEPT !.pc = "idle", !.ok = TRUE])
    /\ UNCHANGED <<tally, mutLeft, dbVars, srvVars, cmpVars, limVars, lockVars>>

\* what goroutine t does next once it is in a call
MutStep(t) ==
    \/ MutRLock(t)
    \/ MutLock(t)
    \/ MutGranted(t)
    \/ MutCheckEntries(t)
    \/ MutSet(t)
    \/ MutDBExists(t)
    \/ MutNewHashMap(t)
    \/ MutRegister(t)
    \/ MutCreateApiKey(t)
    \/ MutDBDelete(t)
    \/ MutCloseDbs(t)

\* Two request goroutines on a server with no database yet, with and
\* without credentials.
InitMut ==
    /\ InitDb(<<>>, 0)
    /\ dbs = EmptyMap
    /\ apiKeys = EmptyMap
    /\ folder = EmptyMap
    /\ randNext = 0
    /\ up = TRUE
    /\ apikeyEnabled \in BOOLEAN
    /\ last = NoRequest
    /\ reqLeft = 0
    /\ InitCmpIdle
    /\ LimIdle
    /\ LockIdle
    /\ smut = FreeMutex
    /\ thr = [t \in MutThreads |-> IdleThread]
    /\ tally = NoTally
    /\ mutLeft = MaxMutCalls

NextMut ==
    \/ \E t \in MutThreads : MutCall(t)
    \/ \E t \in MutThreads : MutRLock(t)
    \/ \E t \in MutThreads : MutLock(t)
    \/ \E t \in MutThreads : MutGranted(t)
    \/ \E t \in MutThreads : MutCheckEntries(t)
    \/ \E t \in MutThreads : MutSet(t)
    \/ \E t \in MutThreads : MutDBExists(t)
    \/ \E t \in MutThreads : MutNewHashMap(t)
    \/ \E t \in MutThreads : MutRegister(t)
    \/ \E t \in MutThreads : MutCreateApiKey(t)
    \/ \E t \in MutThreads : MutDBDelete(t)
    \/ \E t \in MutThreads : MutCloseDbs(t)

SpecMut == InitMut /\ [][NextMut]_vars

\* the Go scheduler runs every goroutine that can run: a goroutine that is
\* not blocked in a lock call takes its next step
SpecMutFair == SpecMut /\ \A t \in MutThreads : WF_vars(MutStep(t))

\* ------------------------------- createCompressedAOF, file system call by call
DotTmpBin == <<46, 116, 109, 112>> \o DotBin     \* ".tmp.bin"
DefaultDbFolder == <<46, 47, 100, 97, 116, 97>>  \* "./data", the default of DB_FOLDER
PlainDbFolder == <<47, 100>>                     \* "/d", a folder without a dot in its path
DbFolders == {DefaultDbFolder, PlainDbFolder}

\* the databases of the server, by the name they were created with
CmpDbs == {<<97>>, <<98>>}

\* NewAOF's a.FileName
FileName(dir, file) == dir \o SlashStr \o file \o DotBin

\* the temp file name of createCompressedAOF
TmpName(fileName) == Split(fileName, DotStr)[1] \o DotTmpBin

\* the log each database starts with: set a 7, del a, set a 7 for a and
\* set c x, set c x for b
StartLog(d) ==
    IF d = <<97>>
    THEN Frames(<<Data(ActSet, <<97>>, <<55>>, 0), Data(ActDel, <<97>>, EmptyStr, 0),
                  Data(ActSet, <<97>>, <<55>>, 0)>>)
    ELSE Frames(<<Data(ActSet, <<99>>, <<120>>, 0), Data(ActSet, <<99>>, <<120>>, 0)>>)

\* the content of the file a path leads to
FileAt(p, ino, path) == ino[p[path]]

\* an inode number not in use
NewInode(ino) == CHOOSE n \in 1..(Cardinality(DOMAIN ino) + 1) : n \notin DOMAIN ino

\* a write of bytes at offset 0 of a file opened without O_APPEND
WriteAt0(content, bytes) ==
    IF Len(bytes) >= Len(content) THEN bytes
    ELSE bytes \o SubSeq(content, Len(bytes) + 1, Len(content))

\* a database's AOF between compactions
CmpIdle(iofile) ==
    [pc |-> "idle", entries |-> <<>>, tmpFile |-> 0, tmpBuf |-> <<>>, iofile |-> iofile,
     done |-> 0, failed |-> "none", appended |-> 0]

\* Loop takes a.compressing and calls a.aeCB(): the snapshot of the table
CmpSnapshot(d) ==
    /\ cmp[d].pc = "idle"
    /\ cmp[d].done < MaxCompactions
    /\ cmp' = [cmp EXCEPT ![d].pc = "open",
                          ![d].entries = GetAllEntriesAndCompress(tables[d])]
    /\ UNCHANGED <<dbFolder, paths, inodes, tables, crashes, dbVars, srvVars, limVars, lockVars, mutVars>>

\* 1. os.OpenFile(tmpName, O_WRONLY|O_CREATE|O_TRUNC)
CmpOpenTmp(d) ==
    /\ cmp[d].pc = "open"
    /\ LET tmpName == TmpName(FileName(dbFolder, d))
           inode == IF tmpName \in DOMAIN paths THEN paths[tmpName] ELSE NewInode(inodes)
       IN /\ paths' = MapPut(paths, tmpName, inode)
          /\ inodes' = MapPut(inodes, inode, <<>>)
          /\ cmp' = [cmp EXCEPT ![d].pc = "write", ![d].tmpFile = inode]
    /\ UNCHANGED <<dbFolder, tables, crashes, dbVars, srvVars, limVars, lockVars, mutVars>>

\* 2. one set frame per entry into tmpBuf
CmpWrite(d) ==
    /\ cmp[d].pc = "write"
    /\ cmp' = [cmp EXCEPT ![d].pc = "flush", ![d].tmpBuf = CompressedFile(cmp[d].entries)]
    /\ UNCHANGED <<dbFolder, paths, inodes, tables, crashes, dbVars, srvVars, limVars, lockVars, mutVars>>

\* 3. tmpBuf.Flush, tmpFile.Sync, tmpFile.Close
CmpFlushTmp(d) ==
    /\ cmp[d].pc = "flush"
    /\ inodes' = [inodes EXCEPT ![cmp[d].tmpFile] = WriteAt0(@, cmp[d].tmpBuf)]
    /\ cmp' = [cmp EXCEPT ![d].pc = "closeold", ![d].tmpBuf = <<>>, ![d].tmpFile = 0]
    /\ UNCHANGED <<dbFolder, paths, tables, crashes, dbVars, srvVars, limVars, lockVars, mutVars>>

\* 4. a.file.Flush, a.iofile.Sync, a.iofile.Close
CmpCloseOld(d) ==
    /\ cmp[d].pc = "closeold"
    /\ cmp' = [cmp EXCEPT ![d].pc = "rename", ![d].iofile = 0]
    /\ UNCHANGED <<dbFolder, paths, inodes, tables, crashes, dbVars, srvVars, limVars, lockVars, mutVars>>

\* the inodes that a path or an open file still refers to
Referenced(p, c) ==
    {p[x] : x \in DOMAIN p} \cup {c[d].tmpFile : d \in DOMAIN c} \cup {c[d].iofile : d \in DOMAIN c}

\* 5. os.Rename(tmpName, a.FileName); createCompressedAOF returns on its error
CmpRename(d) ==
    /\ cmp[d].pc = "rename"
    /\ LET fileName == FileName(dbFolder, d)
           tmpName == TmpName(fileName)
       IN IF tmpName \in DOMAIN paths
          THEN LET p2 == MapDelete(MapPut(paths, fileName, paths[tmpName]), tmpName)
               IN /\ paths' = p2
                  /\ inodes' = [i \in (DOMAIN inodes) \cap Referenced(p2, cmp) |-> inodes[i]]
                  /\ cmp' = [cmp EXCEPT ![d].pc = "reopen"]
          ELSE /\ cmp' = [cmp EXCEPT ![d].pc = "idle", ![d].done = @ + 1]
               /\ UNCHANGED <<paths, inodes>>
    /\ UNCHANGED <<dbFolder, tables, crashes, dbVars, srvVars, limVars, lockVars, mutVars>>

\* 6. os.OpenFile(a.FileName, O_RDWR|O_CREATE|O_APPEND) and a new writer
CmpReopen(d) ==
    /\ cmp[d].pc = "reopen"
    /\ cmp' = [cmp EXCEPT ![d].pc = "idle", ![d].done = @ + 1,
                          ![d].iofile = paths[FileName(dbFolder, d)]]
    /\ UNCHANGED <<dbFolder, paths, inodes, tables, crashes, dbVars, srvVars, limVars, lockVars, mutVars>>

\* the process dies at this point and a new one opens every database again:
\* open files and buffers are gone, NewHashMap replays each log file
Crash ==
    /\ crashes < MaxCrashes
    /\ crashes' = crashes + 1
    /\ tables' = [d \in CmpDbs |-> NewHashMap(FileAt(paths, inodes, FileName(dbFolder, d)), now)]
    /\ cmp' = [d \in CmpDbs |-> CmpIdle(paths[FileName(dbFolder, d)])]
    /\ inodes' = [i \in {paths[x] : x \in DOMAIN paths} |-> inodes[i]]
    /\ UNCHANGED <<dbFolder, paths, dbVars, srvVars, limVars, lockVars, mutVars>>

\* Two databases with their log files in DB_FOLDER, each compacting its log
\* on its own Loop goroutine, and a crash of the process at any point.
InitCompact ==
    /\ InitDb(<<>>, 0)
    /\ SrvIdle
    /\ dbFolder \in DbFolders
    /\ paths = [f \in {FileName(dbFolder, d) : d \in CmpDbs} |->
                  IF f = FileName(dbFolder, <<97>>) THEN 1 ELSE 2]
    /\ inodes = [i \in 1..2 |-> IF i = 1 THEN StartLog(<<97>>) ELSE StartLog(<<98>>)]
    /\ tables = [d \in CmpDbs |-> NewHashMap(StartLog(d), StartTime)]
    /\ cmp = [d \in CmpDbs |-> CmpIdle(IF d = <<97>> THEN 1 ELSE 2)]
    /\ crashes = 0
    /\ LimIdle
    /\ LockIdle
    /\ MutIdle

NextCompact ==
    \/ \E d \in CmpDbs : CmpSnapshot(d)
    \/ \E d \in CmpDbs : CmpOpenTmp(d)
    \/ \E d \in CmpDbs : CmpWrite(d)
    \/ \E d \in CmpDbs : CmpFlushTmp(d)
    \/ \E d \in CmpDbs : CmpCloseOld(d)
    \/ \E d \in CmpDbs : CmpRename(d)
    \/ \E d \in CmpDbs : CmpReopen(d)
    \/ Crash

SpecCompact == InitCompact /\ [][NextCompact]_vars

\* ------------------------------------------ I/O errors during a compaction
\* the steps of createCompressedAOF that return on an error: creating the
\* temp file, writing it, flushing and syncing it, the rename, the reopen
FailingSteps == {"open", "write", "flush", "rename", "reopen"}

\* the record a client sets after a compaction
AppendRecord == Data(ActSet, <<99>>, <<55>>, 0)

\* the step at cmp[d].pc returns an error: createCompressedAOF logs it,
\* closes the temp file if it has one open, and returns to Loop.  The old
\* file was closed in step 4, so after a failed rename a.iofile is a closed
\* file, and after a failed reopen it is the nil that os.OpenFile returned;
\* a.file is replaced only on success
CmpFail(d) ==
    /\ cmp[d].pc \in FailingSteps
    /\ cmp' = [cmp EXCEPT ![d].pc = "idle", ![d].done = @ + 1, ![d].failed = cmp[d].pc,
                          ![d].tmpFile = 0, ![d].tmpBuf = <<>>,
                          ![d].iofile = IF cmp[d].pc = "reopen" THEN 0 ELSE @]
    /\ UNCHANGED <<dbFolder, paths, inodes, tables, crashes, dbVars, srvVars, limVars, lockVars, mutVars>>

\* a Set after the compaction: the table is changed, the record goes
\* through a.com into writeFrame, and the ticker's a.file.Flush and
\* a.iofile.Sync write the buffer to a.iofile, opened with O_APPEND; on a
\* closed or nil file the write fails and Loop only logs the error
CmpAppend(d) ==
    /\ cmp[d].pc = "idle"
    /\ cmp[d].done > 0
    /\ cmp[d].appended < MaxAppends
    /\ cmp' = [cmp EXCEPT ![d].appended = @ + 1]
    /\ tables' = [tables EXCEPT ![d] =
                     Set(@, now, AppendRecord.Ttl, AppendRecord.Key, AppendRecord.Value).hm]
    /\ inodes' = IF cmp[d].iofile = 0 THEN inodes
                 ELSE [inodes EXCEPT ![cmp[d].iofile] = @ \o writeFrame(AppendRecord)]
    /\ UNCHANGED <<dbFolder, paths, crashes, dbVars, srvVars, limVars, lockVars, mutVars>>

\* Two databases in a folder without a dot in its path, each compacting its
\* log once, any step of which may fail, and a Set after the compaction.
InitIoErr == InitCompact /\ dbFolder = PlainDbFolder

NextIoErr ==
    \/ \E d \in CmpDbs : CmpSnapshot(d)
    \/ \E d \in CmpDbs : CmpOpenTmp(d)
    \/ \E d \in CmpDbs : CmpWrite(d)
    \/ \E d \in CmpDbs : CmpFlushTmp(d)
    \/ \E d \in CmpDbs : CmpCloseOld(d)
    \/ \E d \in CmpDbs : CmpRename(d)
    \/ \E d \in CmpDbs : CmpReopen(d)
    \/ \E d \in CmpDbs : CmpFail(d)
    \/ \E d \in CmpDbs : CmpAppend(d)

SpecIoErr == InitIoErr /\ [][NextIoErr]_vars

\* ------------------------------------------------ what the claims read
\* the entries reachable from the bucket array
EntriesOf(h) == LET all == ScanFrom(h, 0) IN {all[i] : i \in 1..Len(all)}

\* the table as a set of <<key, value>> pairs
Contents(h) == {<<e.Key, e.Value>> : e \in EntriesOf(h)}

KeysIn(S) == {x[1] : x \in S}

\* the reference map's operations on a set of pairs
RefPut(S, k, v) == {x \in S : x[1] # k} \cup {<<k, v>>}
RefRemove(S, k) == {x \in S : x[1] # k}

\* same keys, same value for every key, same entry count
SameTable(h1, h2) == Contents(h1) = Contents(h2) /\ h1.Entries = h2.Entries

\* the expiry seconds under which the expiration manager holds key
ExpiriesOf(h, key) ==
    UNION {{f \in DOMAIN h.TTlManager.List[s] : key \in h.TTlManager.List[s][f]} :
             s \in DOMAIN h.TTlManager.List}

Writes == {"set", "setnx", "incr", "del"}

\* client p's operation returns in this step
Returns(p) == pc'[p] = "idle" /\ (pc[p] # "idle" \/ opsLeft' < opsLeft)

\* client p's operation is applied to the table in this step
Applies(p) == pc[p] = "apply" /\ pc'[p] = "idle"

\* ------------------------------------------------------------- claims
\* C1: replay equivalence.  When the database has been closed, replaying
\* its log file from the start yields a table with the same keys, the same
\* value for every key and the same entry count as the table had (every
\* operation of Spec has TTL 0 and is issued by the one client).
C1_ReplayEquivalence == ~open => SameTable(NewHashMap(disk, now), hm)

\* C2: a write issued while a compaction was pending is neither lost nor
\* duplicated.  Once the compaction has finished, the client has returned
\* and the log queue has drained, replaying the log (the file and what the
\* writer still buffers) yields the table's current state.
C2_WritesDuringCompaction ==
    (/\ \A p \in Procs : pc[p] = "idle"
     /\ op["p1"].kind \in Writes
     /\ op["p1"].rc = "sending"
     /\ rcPc \in {"store", "select"}
     /\ com = <<>>)
    => SameTable(NewHashMap(disk \o buf, now), hm)

\* C3: the log holds the records of one key in the order in which the
\* mutations were applied, so once the database is closed a replay of the
\* log gives every key the value (or the absence) the live table has.
C3_LogOrderPerKey ==
    ~open => \A k \in Keys : Get(NewHashMap(disk, now), k) = Get(hm, k)

\* C4: of two SetIfAbsent calls for the same key that was absent when both
\* were called (they are the only operations on a fresh database), exactly
\* one returns true.
C4_SetNXExactlyOne ==
    (/\ \A p \in Procs : pc[p] = "idle" /\ op[p].kind = "setnx"
     /\ op["p1"].key = op["p2"].key)
    => (ret["p1"].ok # ret["p2"].ok)

\* C5: an entry written with TTL t > 0 at second T is gone by T+t+2.  An
\* entry with a TTL that is still in the table is registered under an
\* expiry second T+t, so the clock is before T+t+2 for one of the seconds
\* it is registered under.
C5_ExpiredByDeadline ==
    \A e \in EntriesOf(hm) :
        e.Ttl > 0 => \E f \in ExpiriesOf(hm, e.Key) : now < f + 2

\* C6: overwriting an entry that has a TTL removes its old expiration
\* membership.  After a successful Set or Increment of an existing key whose
\* TTL was not 0, the key is registered under its new expiry second only,
\* and under none when the new TTL is 0.
C6_OverwriteDropsMembership ==
    [][\A p \in Procs :
         (/\ Applies(p)
          /\ op[p].kind \in {"set", "setnx", "incr"}
          /\ ret'[p].ok
          /\ \E e \in EntriesOf(hm) : e.Key = op[p].key /\ e.Ttl # 0)
         => ExpiriesOf(hm', op[p].key)
              = (IF op[p].ttl > 0 THEN {now + op[p].ttl} ELSE {})]_vars

\* C7: Delete removes the entry's expiration membership.  After a Delete
\* that found the key, the expiration manager holds no membership for it.
C7_DeleteDropsMembership ==
    [][\A p \in Procs :
         (Applies(p) /\ op[p].kind = "del" /\ ret'[p].ok)
         => ExpiriesOf(hm', op[p].key) = {}]_vars

\* The reference map, step by step: S is the table's contents before the
\* step in which client p's operation returns, S2 its contents after it,
\* ok whether Set and SetIfAbsent are admitted.
RefStep(p, okToInsert) ==
    LET o == op'[p]
        r == ret'[p]
        S == Contents(hm)
        S2 == Contents(hm')
        present == o.key \in KeysIn(S)
    IN /\ hm'.Entries = Cardinality(S2)
       /\ Cardinality(KeysIn(S2)) = Cardinality(S2)
       /\ o.kind = "set" =>
            /\ r.ok = okToInsert
            /\ S2 = IF r.ok THEN RefPut(S, o.key, o.value) ELSE S
       /\ o.kind = "setnx" =>
            /\ r.ok = (okToInsert /\ ~present)
            /\ S2 = IF r.ok THEN RefPut(S, o.key, o.value) ELSE S
       /\ o.kind = "del" =>
            /\ r.ok = present
            /\ S2 = RefRemove(S, o.key)
       /\ o.kind = "get" =>
            /\ r.ok = present
            /\ r.ok => <<o.key, r.value>> \in S
            /\ S2 = S

\* C8 as claimed: run sequentially the table behaves like a reference map,
\* Set always returns true and SetIfAbsent returns true iff the key was
\* absent.
C8_ReferenceMap ==
    [][IF Returns("p1") THEN RefStep("p1", TRUE)
       ELSE Contents(hm') = Contents(hm)]_vars

\* C8 as amended: the same, except that Set and SetIfAbsent return false and
\* change nothing when the entry count is not below the configured maximum.
C8_ReferenceMapBelowCap ==
    [][IF Returns("p1") THEN RefStep("p1", hm.Entries < MaxEntries)
       ELSE Contents(hm') = Contents(hm)]_vars

\* a SetIfAbsent of a present key has returned false below the cap and a
\* second key is absent
C8_Witness ==
    /\ pc["p1"] = "idle"
    /\ op["p1"].kind = "setnx"
    /\ ~ret["p1"].ok
    /\ hm.Entries = 1
    /\ hm.Entries < MaxEntries
    /\ op["p1"].key \in KeysIn(Contents(hm))

\* the entry of key in the table h (the key is present)
EntryOf(h, key) == CHOOSE e \in EntriesOf(h) : e.Key = key

\* s is the decimal string of the integer n
IsDecimalOf(s, n) ==
    /\ ParseInt(s).ok
    /\ ParseInt(s).val = n
    /\ s[1] # 43
    /\ (n >= 0 => (s[1] # 45 /\ (Len(s) > 1 => s[1] # 48)))
    /\ (n < 0 => (s[1] = 45 /\ s[2] # 48))

\* what Increment does in the step in which it is applied; sum(a, b) is the
\* integer stored for the values a and b
IncrStep(p, Sum(_, _)) ==
    LET o == op[p]
        present == o.key \in KeysIn(Contents(hm))
        old == EntryOf(hm, o.key).Value
        a == ParseInt(old)
        b == ParseInt(o.value)
    IN /\ (present /\ a.ok /\ b.ok) =>
            /\ ret'[p].ok
            /\ IsDecimalOf(EntryOf(hm', o.key).Value, Sum(a.val, b.val))
            /\ RefRemove(Contents(hm'), o.key) = RefRemove(Contents(hm), o.key)
       /\ (present /\ ~a.ok) =>
            /\ ~ret'[p].ok
            /\ Contents(hm') = Contents(hm)
       /\ (~present /\ b.ok) =>
            /\ ret'[p].ok
            /\ Contents(hm') = Contents(hm) \cup {<<o.key, o.value>>}

ExactSum(a, b) == a + b

\* the sum reduced modulo 2^IntBits into the signed range
WrappedSum(a, b) ==
    CHOOSE n \in IntMin..IntMax : \E m \in {-1, 0, 1} : n = a + b + m * Pow2(IntBits)

\* C9 as claimed: Increment of a numeric value by a numeric amount stores
\* the decimal string of their sum.
C9_IncrStoresSum ==
    [][\A p \in Procs : (Applies(p) /\ op[p].kind = "incr") => IncrStep(p, ExactSum)]_vars

\* C9 as amended: it stores the decimal string of their sum wrapped to the
\* signed integer width (two's complement).
C9_IncrStoresWrappedSum ==
    [][\A p \in Procs : (Applies(p) /\ op[p].kind = "incr") => IncrStep(p, WrappedSum)]_vars

\* an Increment has returned true and left a negative number, which only a
\* wrapped sum of the non-negative inputs gives
C9_Witness ==
    /\ pc["p1"] = "idle"
    /\ op["p1"].kind = "incr"
    /\ ret["p1"].ok
    /\ \E e \in EntriesOf(hm) :
         e.Key = op["p1"].key /\ ParseInt(e.Value).ok /\ ParseInt(e.Value).val < 0

\* C10: Increment with an amount that is not a number returns false and
\* leaves the table unchanged, whether the key is present or absent.
C10_IncrBadAmount ==
    [][\A p \in Procs :
         (Applies(p) /\ op[p].kind = "incr" /\ ~ParseInt(op[p].value).ok)
         => (~ret'[p].ok /\ hm' = hm)]_vars

\* the bytes the log holds or will hold: the file, the writer's buffer and
\* the frames of the records still queued, in that order
LogWithPending == disk \o buf \o Frames(com)

\* the writer handles a compaction request in this step
CompactionStep == rcPc = "sending" /\ rcPc' = "store"

\* C12: shutdown persists pending writes.  From the call of Close to its
\* return no step of the writer drops or reorders a pending record (the file
\* followed by the buffer and the queued records stays the same byte
\* sequence; a compaction in between flushes the buffer and keeps the
\* queue), and when Close returns the queue is drained and the buffer
\* flushed, so every record enqueued before Close is in the file, in enqueue
\* order.
C12_ClosePersistsPending ==
    [][/\ (comClosed' /\ open /\ ~CompactionStep) =>
            (disk' \o buf' \o Frames(com')) = LogWithPending
       /\ (comClosed' /\ open /\ CompactionStep) => (com' = com /\ buf' = <<>>)
       /\ (open /\ ~open') => (com = <<>> /\ buf = <<>> /\ loopPc = "quit")]_vars

\* Close has returned on a database that took writes and its file holds more
\* than the log it was opened on
C12_Witness ==
    /\ ~open
    /\ reopens = 0
    /\ sent = MaxOps
    /\ rcPc = "select"
    /\ hm.deletedEntries > 0
    /\ Len(disk) > Len(DeletedThrice)

\* C20: the per-database entry cap.  A Set or SetIfAbsent called when the
\* entry count is not below the maximum returns false at once and leaves the
\* table and the log (queue, buffer and file) unchanged; a Delete or an
\* Increment is never refused at the call, and on a key that is present
\* with the table at the cap Delete returns true and Increment returns
\* whether the value and the amount are numbers.
C20_EntryCap ==
    [][\A p \in Procs :
         /\ (pc[p] = "idle" /\ opsLeft' < opsLeft /\ op'[p].kind \in {"set", "setnx"}
               /\ hm.Entries >= MaxEntries)
            => (/\ pc'[p] = "idle"
                /\ ~ret'[p].ok
                /\ hm' = hm
                /\ com' = com /\ buf' = buf /\ disk' = disk)
         /\ (pc[p] = "idle" /\ opsLeft' < opsLeft /\ op'[p].kind \in {"del", "incr"})
            => (pc'[p] = "apply" /\ Len(com') = Len(com) + 1)
         /\ (Applies(p) /\ hm.Entries >= MaxEntries
               /\ op[p].key \in KeysIn(Contents(hm)))
            => (/\ op[p].kind = "del" => ret'[p].ok
                /\ op[p].kind = "incr" =>
                      ret'[p].ok = (ParseInt(EntryOf(hm, op[p].key).Value).ok
                                    /\ ParseInt(op[p].value).ok))]_vars

\* a Set has been refused with the table at the cap
C20_Witness ==
    /\ pc["p1"] = "idle"
    /\ op["p1"].kind = "set"
    /\ ~ret["p1"].ok
    /\ hm.Entries = MaxEntries

\* ------------------------------------------------ registry and credentials
\* a step that answers a request
Answers == up /\ up' /\ reqLeft' < reqLeft

\* a step that starts a new server process on the folder
Starts == ~up /\ up'

\* the token is valid for the database: a digest is stored under the
\* upper-cased name and it is the digest of the token
TokenValidFor(keys, db, token) ==
    ToUpper(db) \in DOMAIN keys /\ keys[ToUpper(db)] = Sum256(token)

\* C14: Create on a name that is registered in any letter case answers
\* exists and not created, hands out no token and leaves the registry, every
\* file and every credential as they were; Create on a valid name that is not
\* registered answers created and not exists and adds exactly that name,
\* upper-cased, to the registry, leaving the other databases alone.
C14_CreateExistsOrRegisters ==
    [][(Answers /\ last'.kind = "create" /\ CheckDbName(last'.db)) =>
         LET name == ToUpper(last'.db)
         IN IF name \in DOMAIN dbs
            THEN /\ last'.exists /\ ~last'.created /\ last'.apikey = EmptyStr
                 /\ dbs' = dbs /\ folder' = folder /\ apiKeys' = apiKeys
            ELSE /\ ~last'.exists /\ last'.created
                 /\ DOMAIN dbs' = (DOMAIN dbs) \cup {name}
                 /\ \A other \in DOMAIN dbs : dbs'[other] = dbs[other]]_vars

\* a Create of "A" answered with exists while database A, created as "a",
\* holds an entry
C14_Witness ==
    /\ last.kind = "create" /\ last.db = <<65>> /\ last.exists /\ ~last.created
    /\ <<65>> \in DOMAIN dbs
    /\ dbs[<<65>>].FileName = LogFile(<<97>>)
    /\ dbs[<<65>>].hm.Entries = 1

\* C15: a start of the server registers every database that has a log file
\* in the folder, and its table holds what the replay of that file gives,
\* with authentication enabled or not.
C15_RestartRegistersAll ==
    [][Starts =>
         \A f \in DOMAIN folder :
            HasSuffix(f, DotBin) =>
               LET name == ToUpper(TrimSuffix(f, DotBin))
               IN /\ name \in DOMAIN dbs'
                  /\ SameTable(dbs'[name].hm, NewHashMap(folder[f], now))]_vars

\* C15 for servers without authentication
C15_RestartWithoutAuth ==
    [][(Starts /\ ~apikeyEnabled) =>
         \A f \in DOMAIN folder :
            HasSuffix(f, DotBin) =>
               LET name == ToUpper(TrimSuffix(f, DotBin))
               IN /\ name \in DOMAIN dbs'
                  /\ SameTable(dbs'[name].hm, NewHashMap(folder[f], now))]_vars

\* the database a sidecar file belongs to
SidecarName(f) == SubSeq(f, 2, Len(f) - Len(DotApikey))

\* C16: with authentication enabled, after a start the digest stored for
\* every database that has a log file and a sidecar file is the one in the
\* sidecar, so a token that was valid before the shutdown is valid again.
C16_CredentialsSurviveRestart ==
    [][(Starts /\ apikeyEnabled) =>
         \A f \in DOMAIN folder :
            (/\ HasSuffix(f, DotApikey)
             /\ \E g \in DOMAIN folder :
                  HasSuffix(g, DotBin) /\ ToUpper(TrimSuffix(g, DotBin)) = SidecarName(f)) =>
               /\ SidecarName(f) \in DOMAIN apiKeys'
               /\ apiKeys'[SidecarName(f)] = folder[f]
               /\ \A token \in TokenInputs :
                    Sum256(token) = folder[f] => IsApiKeyValid(apiKeys', SidecarName(f), token)]_vars

\* C17: with authentication enabled, a database-specific operation of either
\* wire surface is executed only when the request carries a token valid for
\* that database.
C17_TokenGate ==
    [][(Answers /\ apikeyEnabled /\ last'.kind \in DbKinds /\ last'.executed) =>
         TokenValidFor(apiKeys, last'.db, last'.token)]_vars

\* C17 for every operation but Exists of the gRPC surface
C17_TokenGateButGrpcExists ==
    [][(Answers /\ apikeyEnabled /\ last'.kind \in DbKinds /\ last'.executed
          /\ ~(last'.surface = "grpc" /\ last'.kind = "exists")) =>
         TokenValidFor(apiKeys, last'.db, last'.token)]_vars

\* C18: IsApiKeyValid(db, token) is true exactly when a digest is stored
\* under the upper-cased name and equals the digest of the token; it is
\* false for a database without a digest, for the empty token, and for a
\* token that is valid for another database.
C18_IsApiKeyValid ==
    \A db \in NameInputs, token \in TokenInputs :
        LET valid == IsApiKeyValid(apiKeys, db, token)
        IN /\ valid <=> TokenValidFor(apiKeys, db, token)
           /\ ToUpper(db) \notin DOMAIN apiKeys => ~valid
           /\ token = EmptyStr => ~valid
           /\ (\E other \in (DOMAIN apiKeys) \ {ToUpper(db)} :
                  TokenValidFor(apiKeys, other, token)) => ~valid

\* two databases hold credentials and a get under the lower-case name was
\* executed with its token
C18_Witness ==
    /\ Cardinality(DOMAIN apiKeys) = 2
    /\ apikeyEnabled
    /\ last.kind = "get" /\ last.db = <<97>> /\ last.executed
    /\ IsApiKeyValid(apiKeys, <<97>>, last.token)

\* C19: a rotation hands out a token that is valid for the database, every
\* token that was valid for it before is no longer valid, and the stored
\* digests and sidecar files of the other databases are unchanged.
C19_Rotation ==
    [][(Answers /\ last'.kind = "rotate" /\ last'.code = "200") =>
         LET name == ToUpper(last'.db)
         IN /\ IsApiKeyValid(apiKeys', last'.db, last'.apikey)
            /\ \A token \in TokenInputs :
                 IsApiKeyValid(apiKeys, last'.db, token) =>
                    ~IsApiKeyValid(apiKeys', last'.db, token)
            /\ DOMAIN apiKeys' = DOMAIN apiKeys
            /\ \A other \in (DOMAIN apiKeys) \ {name} :
                 /\ apiKeys'[other] = apiKeys[other]
                 /\ folder'[ApikeyFile(other)] = folder[ApikeyFile(other)]]_vars

\* a rotation of one database's credential while a second database holds one
C19_Witness ==
    /\ last.kind = "rotate" /\ last.code = "200"
    /\ Cardinality(DOMAIN apiKeys) = 2
    /\ ~IsApiKeyValid(apiKeys, last.db, last.token)
    /\ IsApiKeyValid(apiKeys, last.db, last.apikey)

\* --------------------------------------------------- compaction, step by step
\* the rename of createCompressedAOF succeeds for database d in this step
Renamed(d) == cmp[d].pc = "rename" /\ cmp'[d].pc = "reopen"

\* the log file of database d after the step
LogAfter(d) == FileAt(paths', inodes', FileName(dbFolder, d))

\* the compacted log of the database's starting log
StartSnapshot(d) ==
    CompressedFile(GetAllEntriesAndCompress(NewHashMap(StartLog(d), StartTime)))

\* C11: right after a successful compaction the log file holds exactly one
\* set record for each entry of the snapshot and no other record, and its
\* replay gives the table as it was at the compaction.
C11_CompactedLogIsSnapshot ==
    [][\A d \in CmpDbs :
          Renamed(d) =>
             /\ LogAfter(d) = CompressedFile(cmp[d].entries)
             /\ SameTable(NewHashMap(LogAfter(d), now), tables[d])]_vars

\* C11 when DB_FOLDER has no dot in its path
C11_CompactedLogPlainFolder ==
    [][\A d \in CmpDbs :
          (Renamed(d) /\ dbFolder = PlainDbFolder) =>
             /\ LogAfter(d) = CompressedFile(cmp[d].entries)
             /\ SameTable(NewHashMap(LogAfter(d), now), tables[d])]_vars

\* C13: a crash at any point of a compaction leaves, under the name of the
\* log file, the whole old log or the whole compacted log.
C13_CrashLeavesWholeLog ==
    [][crashes' > crashes =>
          \A d \in CmpDbs :
             /\ FileName(dbFolder, d) \in DOMAIN paths'
             /\ LogAfter(d) \in {StartLog(d), StartSnapshot(d)}]_vars

\* C13 when DB_FOLDER has no dot in its path
C13_CrashPlainFolder ==
    [][(crashes' > crashes /\ dbFolder = PlainDbFolder) =>
          \A d \in CmpDbs :
             /\ FileName(dbFolder, d) \in DOMAIN paths'
             /\ LogAfter(d) \in {StartLog(d), StartSnapshot(d)}]_vars

\* C21: a delete of a database removes its log file and its registry entry;
\* afterwards the name does not exist, Set, SetNX, Incr, Del and Get on it
\* fail and change nothing, and a Create of the name gives a database with
\* no entry.
C21_DeleteDatabase ==
    [][(Answers /\ last'.kind = "deletedb" /\ last'.code = "200") =>
         LET name == ToUpper(last'.db)
             after == [dbs |-> dbs', apiKeys |-> apiKeys', folder |-> folder',
                       rand |-> randNext']
         IN /\ name \in DOMAIN dbs
            /\ name \notin DOMAIN dbs'
            /\ dbs[name].FileName \notin DOMAIN folder'
            /\ ~DBExists(after, last'.db)
            /\ Bootstrap(after, last'.db) = "404"
            /\ \A kind \in {"set", "setnx", "incr", "del", "get"} :
                 Operate(after, kind, last'.db, RegKey, RegValue, now) =
                    [w |-> after, ok |-> FALSE]
            /\ \A again \in {last'.db, name} :
                 /\ NewDB(after, again, now, FALSE).created
                 /\ Contents(NewDB(after, again, now, FALSE).w.dbs[name].hm) = {}
                 /\ NewDB(after, again, now, FALSE).w.dbs[name].hm.Entries = 0
            /\ \A other \in (DOMAIN dbs) \ {name} :
                 other \in DOMAIN dbs' /\ dbs'[other] = dbs[other]]_vars

\* database A was deleted while it held an entry
C21_Witness ==
    /\ last.kind = "deletedb" /\ last.code = "200" /\ last.entries = 1
    /\ ToUpper(last.db) \notin DOMAIN dbs

\* requests of a surface that hold a token of its channel
Holding(s) == {c \in Conns : reqs[c].surface = s /\ reqs[c].pc \in {"handler", "deferred"}}

InHandler(s) == {c \in Conns : reqs[c].surface = s /\ reqs[c].pc = "handler"}

GetScans(p) == pc[p] = "scan" /\ op[p].kind = "get" /\ pc'[p] = "unlock"

\* what a Get may answer: a value some Set or Incr has stored under the key,
\* and found when an insert of the key had returned before the Get was
\* called and no Del of the key has been called
GetAnswersWritten(p) ==
    /\ ret'[p].ok => ret'[p].value \in gh.written[op[p].key]
    /\ (loc[p].seen /\ op[p].key \notin gh.deleting) => ret'[p].ok

\* no more basket locks than baskets: the keys of one basket share a lock
CoarseLocks == hm.basketLockNum <= DefaultBasketSize

\* C23: for every key and every interleaving of the clients, the growth
\* monitor and the writer's snapshot, a Get returns a value that a Set or
\* Incr called before the Get returned has written, or not-found, and with no
\* Del of the key it is never not-found for a key whose insert had returned.
C23_GetReturnsWritten ==
    [][\A p \in Procs : GetScans(p) => GetAnswersWritten(p)]_vars

\* C23 when the basket locks are no more than the baskets
C23_GetReturnsWrittenCoarseLocks ==
    [][\A p \in Procs : (GetScans(p) /\ CoarseLocks) => GetAnswersWritten(p)]_vars

\* a Get that found the key after its insert, in a table twice its first size
C23_CoarseLocksWitness ==
    /\ CoarseLocks
    /\ hm.basketNum > DefaultBasketSize
    /\ \E p \in Procs : pc[p] = "unlock" /\ op[p].kind = "get" /\ loc[p].seen /\ ret[p].ok

\* no call, no resize and no snapshot is in progress
Quiescent == (\A p \in Procs : pc[p] = "idle") /\ mutex.w = "" /\ mutex.r = {}

\* C27: whenever no call, resize or snapshot is in progress, the entry
\* counter is the number of entries on the chains of the table.
C27_CounterMatches == Quiescent => hm.Entries = Len(ScanFrom(hm, 0))

\* C27 when the basket locks are no more than the baskets
C27_CounterMatchesCoarseLocks ==
    (Quiescent /\ CoarseLocks) => hm.Entries = Len(ScanFrom(hm, 0))

\* no client is between taking and giving back the table read lock, and no
\* basket lock is held
NobodyInside ==
    /\ mutex.r = {}
    /\ \A p \in Procs : pc[p] \in {"idle", "rlock"}
    /\ \A i \in DOMAIN basketLocks : basketLocks[i] = NoLock

\* C29: while the growth monitor's resize or the writer's snapshot holds the
\* table write lock, no call is inside its critical section and no basket
\* lock is held; the table is resized and the snapshot taken only in such a
\* state, by the task that holds the write lock, and no client step changes
\* the table meanwhile.
C29_ResizeAndSnapshotExclusive ==
    /\ [](mutex.w # "" => NobodyInside)
    /\ [][/\ hm'.basketNum # hm.basketNum => (mutex.w = "resize" /\ NobodyInside)
          /\ snap' # snap /\ snap = <<>> => (mutex.w = "snapshot" /\ NobodyInside)
          /\ (mutex.w # "" /\ hm' # hm) => mutex.w = "resize"]_vars

\* the resize holds the write lock and is about to double the table while a
\* client waits for the read lock
C29_Witness ==
    /\ mutex.w = "resize"
    /\ 4 * hm.Entries > 3 * hm.basketNum
    /\ \E p \in Procs : pc[p] = "rlock"

\* the snapshot of a table with an entry is being taken while a client waits
C29_SnapshotWitness ==
    /\ mutex.w = "snapshot"
    /\ \E p \in Procs : pc[p] = "rlock"

IsPowerOfTwo(n) == \E k \in 0..n : Pow2(k) = n

\* C24: the bucket count is a power of two in every state, no step makes
\* it smaller while the database is open, and a step that changes it doubles
\* it.
C24_BucketCountDoubles ==
    /\ [](IsPowerOfTwo(hm.basketNum) /\ hm.basketNum = Cardinality(DOMAIN hm.table))
    /\ [][(open /\ open') =>
            /\ hm'.basketNum >= hm.basketNum
            /\ hm'.basketNum # hm.basketNum => hm'.basketNum = 2 * hm.basketNum]_vars

\* the table has doubled twice
C24_Witness == hm.basketNum = 4 * DefaultBasketSize /\ inputs = 0 /\ resizeCheck = 0

\* the growth monitor calls CheckResize in this step
ChecksResize == rcPc = "select" /\ resizeCheck' = resizeCheck - 1 /\ inputs' = 0

\* every entry hangs once on the chain of bucket Hash & (basketNum-1), the
\* Hash being the hash of its key
WellPlaced(h) ==
    /\ DOMAIN h.table = 0..(h.basketNum - 1)
    /\ \A i \in DOMAIN h.table : \A j \in DOMAIN h.table[i] :
         /\ h.table[i][j].Hash = HashString(h.table[i][j].Key)
         /\ BitAnd(h.table[i][j].Hash, h.basketNum - 1) = i
    /\ Cardinality(EntriesOf(h)) = Len(ScanFrom(h, 0))

\* C28: CheckResize doubles the bucket count when 4 * entries > 3 * buckets
\* and leaves the table as it is otherwise; after it the table holds the same
\* entries (key, value, TTL, hash), each once and in bucket hash & (2B-1),
\* the entry counter and the expiration manager are unchanged.
C28_CheckResize ==
    [][ChecksResize =>
         /\ IF 4 * hm.Entries > 3 * hm.basketNum
            THEN hm'.basketNum = 2 * hm.basketNum
            ELSE hm' = hm
         /\ EntriesOf(hm') = EntriesOf(hm)
         /\ WellPlaced(hm')
         /\ hm'.Entries = hm.Entries
         /\ hm'.TTlManager = hm.TTlManager]_vars

\* a check at a load of exactly 0.75 has left three entries, one of them with
\* a TTL, in four buckets
C28_Witness ==
    /\ hm.Entries = 3 /\ hm.basketNum = 4 /\ resizeCheck = 0 /\ inputs = 0
    /\ \E e \in EntriesOf(hm) : e.Ttl > 0

\* a check has doubled a table that holds an entry with a TTL
C28_DoubledWitness ==
    /\ hm.Entries = 4 /\ hm.basketNum = 8 /\ resizeCheck = 0 /\ inputs = 0
    /\ \E e \in EntriesOf(hm) : e.Ttl > 0

\* the entries of the table under a key
EntriesAt(h, key) == {e \in EntriesOf(h) : e.Key = key}

\* C25: the expiration manager holds exactly one membership for the key of
\* every entry with a TTL, under the second the entry was last written plus
\* its TTL, and none for a key that is absent or whose entry has TTL 0.
C25_OneMembershipPerTtlEntry ==
    \A key \in Keys :
        IF \E e \in EntriesAt(hm, key) : e.Ttl > 0
        THEN /\ Cardinality(ExpiriesOf(hm, key)) = 1
             /\ \A e \in EntriesAt(hm, key), f \in ExpiriesOf(hm, key) :
                  f - e.Ttl \in StartTime..now
        ELSE ExpiriesOf(hm, key) = {}

\* client p's Set is applied in this step with a TTL that ends at or before
\* the last swept second
AdmitsExpired(p) ==
    /\ Applies(p)
    /\ op[p].kind \in {"set", "setnx"}
    /\ op[p].ttl > 0
    /\ now + op[p].ttl <= hm.TTlManager.lastDeleted

\* C26: an entry written with a TTL whose expiry second now + TTL is not
\* later than lastDeleted is deleted from the table: after the Set the key
\* has no entry.
C26_ExpiredOnAdmissionIsDeleted ==
    [][\A p \in Procs : AdmitsExpired(p) => EntriesAt(hm', op[p].key) = {}]_vars

\* what the code does with such an entry: it stays in the table with its
\* TTL, and the expiration manager is as it was
C26_ExpiredOnAdmissionStays ==
    [][\A p \in Procs : (AdmitsExpired(p) /\ EntriesAt(hm, op[p].key) = {}) =>
         /\ \E e \in EntriesAt(hm', op[p].key) : e.Ttl = op[p].ttl
         /\ hm'.TTlManager = hm.TTlManager]_vars

\* the log once the writer has written every record sent to it
WholeLog == disk \o buf \o Frames(com)

\* the key's entry has a TTL and every second it is registered under lies
\* two seconds or more back: a sweep would have deleted it
Expired(key) ==
    /\ \A p \in Procs : pc[p] = "idle"
    /\ \E e \in EntriesAt(hm, key) : e.Ttl > 0
    /\ ExpiriesOf(hm, key) # {}
    /\ \A f \in ExpiriesOf(hm, key) : now >= f + 2

\* C30: the deletion of an expired key is in the log as a del record, so the
\* replay of the log of a database in which a key was written with a TTL and
\* has expired gives a table without the key.
C30_ExpiredKeyGoneAfterReplay ==
    \A key \in Keys :
        Expired(key) => EntriesAt(NewHashMap(WholeLog, now), key) = {}

\* ---------------------------------------------------------------- C31
\* the table built by applying records one by one, without any framing:
\* set, del and incr act on the table, every other action is passed over
RECURSIVE ApplyRecords(_, _, _)
ApplyRecords(h, recs, t) ==
    IF recs = <<>> THEN h
    ELSE LET d == Head(recs)
         IN IF d.Action = ActSet
            THEN ApplyRecords(Set(h, t, d.Ttl, d.Key, d.Value).hm, Tail(recs), t)
            ELSE IF d.Action = ActDel
            THEN ApplyRecords(Del(h, d.Key).hm, Tail(recs), t)
            ELSE IF d.Action = ActIncr
            THEN ApplyRecords(Incr(h, t, d.Ttl, d.Key, d.Value).hm, Tail(recs), t)
            ELSE ApplyRecords(h, Tail(recs), t)

\* the records of recs whose action the table knows
RECURSIVE KnownOnly(_)
KnownOnly(recs) ==
    IF recs = <<>> THEN <<>>
    ELSE IF Head(recs).Action \in {ActSet, ActDel, ActIncr}
         THEN <<Head(recs)>> \o KnownOnly(Tail(recs))
         ELSE KnownOnly(Tail(recs))

\* file is the bytes whole followed by a proper prefix of one more frame
IsCutAfter(file, whole) ==
    /\ Len(file) >= Len(whole)
    /\ SubSeq(file, 1, Len(whole)) = whole
    /\ \E d \in ReplayRecords :
          /\ Len(file) - Len(whole) < Len(writeFrame(d))
          /\ SubSeq(file, Len(whole) + 1, Len(file))
                 = SubSeq(writeFrame(d), 1, Len(file) - Len(whole))

\* file is the frames of recs followed by a proper prefix of one more frame
CutAfter(file, recs) == IsCutAfter(file, Frames(recs))

\* C31: opening a database on a log whose last frame is cut at any byte
\* builds the table of the complete records before the cut, and that table
\* is the one built from the same records without those of unknown action
C31_TruncatedReplay ==
    [][Reopen =>
         \A recs \in ReplayLogs :
             CutAfter(disk, recs) =>
                 /\ open'
                 /\ SameTable(hm', ApplyRecords(EmptyHashMap(now), recs, now))
                 /\ SameTable(hm', ApplyRecords(EmptyHashMap(now), KnownOnly(recs), now))]_vars

\* a database opened on a log of a set, a record of unknown action and a
\* frame cut inside its value
C31_Witness ==
    /\ open
    /\ reopens = 1
    /\ hm.Entries = 1
    /\ \E d \in ReplayRecords :
          disk = Frames(<<Data(ActSet, <<99>>, <<55>>, 0), Data(ActNop, <<97>>, <<56>>, 0)>>)
                     \o SubSeq(writeFrame(d), 1, Len(writeFrame(d)) - 9)

DelRecord(key) == Data(ActDel, key, EmptyStr, 0)

\* key is in no chain of the table
Absent(key) == key \notin KeysIn(Contents(hm))

\* C33: a Del of a key that is not in the table sends its del record to the
\* writer like any other Del, returns false and leaves the table, the entry
\* count, the deleted-entry counter and the expiration manager as they
\* were; a replay of that record on the same table changes nothing either
C33_DelOfAbsentKey ==
    [][\A p \in Procs :
         /\ (pc[p] = "idle" /\ pc'[p] = "apply" /\ op'[p].kind = "del"
                /\ Absent(op'[p].key))
              => /\ com' = Append(com, DelRecord(op'[p].key))
                 /\ sent' = sent + 1
         /\ (pc[p] = "apply" /\ pc'[p] = "idle" /\ op[p].kind = "del"
                /\ Absent(op[p].key))
              => /\ ret'[p].ok = FALSE
                 /\ hm' = hm
                 /\ ReplayAOF(hm, writeFrame(DelRecord(op[p].key)), now) = hm]_vars

\* "c" deleted from a database that holds only "a": the call returned
\* false, the table still holds one entry with no deletion counted, and the
\* del record is on disk behind the set record
C33_Witness ==
    /\ pc["p1"] = "idle"
    /\ op["p1"].kind = "del"
    /\ op["p1"].key = <<99>>
    /\ ret["p1"].ok = FALSE
    /\ hm.Entries = 1
    /\ hm.deletedEntries = 0
    /\ \E v \in Values :
          disk = Frames(<<Data(ActSet, <<97>>, v, 0), DelRecord(<<99>>)>>)

\* ---------------------------------------------------------------- C34
\* max(entries, 2) / 2 in whole numbers
HalfOfAtLeastTwo(entries) == (IF entries > 2 THEN entries ELSE 2) \div 2

\* the periodic check signals exactly when the deletions counted since the
\* last compaction reach max(entries, 2) / 2
C34_SignalsAtHalf ==
    (open /\ rcPc = "select")
        => (CompactionDue(hm) <=> hm.deletedEntries >= HalfOfAtLeastTwo(hm.Entries))

\* a Del that was called while a compaction was requested or running, and
\* that removed its key, is still counted once the monitor is back at its
\* select
C34_DeletionsDuringCompactionCounted ==
    \A p \in Procs :
        (/\ pc[p] = "idle"
         /\ op[p].kind = "del"
         /\ op[p].rc \in {"sending", "store"}
         /\ ret[p].ok
         /\ rcPc = "select")
        => hm.deletedEntries >= 1

\* C34: at each periodic check the growth monitor signals compaction
\* exactly when the deletions since the last compaction are at least
\* max(entries, 2) / 2, and deletions made while a compaction is requested
\* or running are counted toward the next one
C34_CompactionSignal ==
    /\ C34_SignalsAtHalf
    /\ C34_DeletionsDuringCompactionCounted

\* ---------------------------------------------------------------- C35
\* the content of the live log file of database d
LiveLog(d) == FileAt(paths, inodes, FileName(dbFolder, d))

\* C35: when a step of a compaction fails, the live log file still has the
\* content it had before the compaction, and a record set afterwards is
\* appended to the live log file
C35_FailedCompactionKeepsLog ==
    [][\A d \in CmpDbs :
         /\ (cmp[d].failed = "none" /\ cmp'[d].failed # "none")
              => LiveLog(d)' = StartLog(d)
         /\ (cmp[d].failed # "none" /\ cmp'[d].appended = cmp[d].appended + 1)
              => LiveLog(d)' = LiveLog(d) \o writeFrame(AppendRecord)]_vars

\* the same for the steps before the old file is closed: creating,
\* writing, flushing and syncing the temp file
C35_EarlyFailureKeepsLog ==
    [][\A d \in CmpDbs :
         /\ (cmp[d].failed = "none" /\ cmp'[d].failed \in {"open", "write", "flush"})
              => LiveLog(d)' = StartLog(d)
         /\ (cmp[d].failed \in {"open", "write", "flush"}
                /\ cmp'[d].appended = cmp[d].appended + 1)
              => LiveLog(d)' = LiveLog(d) \o writeFrame(AppendRecord)]_vars

\* the rename of database "a" failed and a record was set afterwards: the
\* table holds it, the live log does not
C35_LostAfterFailedRename ==
    /\ cmp[<<97>>].failed = "rename"
    /\ cmp[<<97>>].appended = 1
    /\ Contents(tables[<<97>>]) = {<<<<97>>, <<55>>>>, <<<<99>>, <<55>>>>}
    /\ LiveLog(<<97>>) = StartLog(<<97>>)

\* ---------------------------------------------------------------- C36
\* C36: every call on the registry returns: a goroutine that is in a call
\* is eventually out of it
C36_EveryCallReturns ==
    \A t \in MutThreads : (thr[t].pc # "idle") ~> (thr[t].pc = "idle")

\* a Set holds the read lock and waits in CheckEntries for the read lock
\* behind a writer that waits for the Set to release it
C36_SetAndWriterBlockEachOther ==
    \E t, u \in MutThreads :
        /\ thr[t].kind \in {"set", "setnx"}
        /\ thr[t].pc = "check"
        /\ thr[t].blocked
        /\ WriteWaits(u)
        /\ smut.pending = u
        /\ smut.readers = 1
        /\ ~ENABLED NextMut

\* ---------------------------------------------------------------- C40
\* goroutine t has returned from a NewDB that reported created
ReturnedCreated(t) ==
    thr[t].pc = "idle" /\ thr[t].kind = "create" /\ thr[t].created

\* at most one table and log writer built per registration of the name
C40_OneTableBuilt == tally.built <= tally.deleted + 1

\* at most one NewDB reports created per registration of the name
C40_OneCreated == tally.created <= tally.deleted + 1

\* the token a NewDB returned is the credential of the database as long as
\* nobody has rotated it or deleted the database
C40_TokenStaysValid ==
    \A t \in MutThreads :
        (ReturnedCreated(t) /\ apikeyEnabled /\ tally.deleted = 0 /\ tally.rotated = 0)
            => IsApiKeyValid(apiKeys, thr[t].name, thr[t].apikey)

\* C40: of the Create calls for one name, in whatever case, exactly one
\* reports created, one table and one log writer are built, and the token
\* its creator got remains valid
C40_ConcurrentCreate ==
    /\ C40_OneTableBuilt
    /\ C40_OneCreated
    /\ C40_TokenStaysValid

\* both goroutines have returned created for "a" and "A"
C40_BothCreated ==
    /\ ReturnedCreated("t1")
    /\ ReturnedCreated("t2")
    /\ thr["t1"].name = <<97>>
    /\ thr["t2"].name = <<65>>
    /\ tally.deleted = 0

\* ---------------------------------------------------------------- C37
\* two keys of one bucket have the same basket lock
SameBasketSameLock(k1, k2) ==
    getIndex(hm, k1).index = getIndex(hm, k2).index
        => BasketLockOf(hm, HashString(k1)) = BasketLockOf(hm, HashString(k2))

\* C37: whatever the number of basket locks and the bucket count the table
\* has grown to, two keys of one bucket are guarded by one basket lock
C37_SameBasketSameLock ==
    \A k1, k2 \in Keys : SameBasketSameLock(k1, k2)

\* C37 for the tables with no more basket locks than baskets
C37_SameBasketSameLockCoarseLocks ==
    CoarseLocks => \A k1, k2 \in Keys : SameBasketSameLock(k1, k2)

\* two clients hold different basket locks and are at the same chain
C37_TwoLocksOneChain ==
    \E p, q \in Procs :
        /\ p # q
        /\ pc[p] \in {"scan", "link"}
        /\ pc[q] \in {"scan", "link"}
        /\ loc[p].index = loc[q].index
        /\ BasketLockOf(hm, loc[p].hash) # BasketLockOf(hm, loc[q].hash)

\* ---------------------------------------------------------------- C38
\* nothing is sent on a.com once it is closed
C38_NoSendAfterClose ==
    [][(comClosed /\ comClosed') => (sent' = sent /\ Len(com') <= Len(com))]_vars

\* the growth monitor is blocked in its send on a.compressing and the
\* writer has returned from Loop
C38_MonitorBlockedOnExitedWriter == rcPc = "sending" /\ loopPc = "quit"

\* C38: after Close has closed the enqueue channel no task sends a record
\* on it, and the growth monitor is never left blocked in its compaction
\* signal to a writer that has exited
C38_QuietAfterClose ==
    /\ C38_NoSendAfterClose
    /\ [](~C38_MonitorBlockedOnExitedWriter)

\* the database is closed and its monitor still blocked in the send
C38_ClosedWithMonitorBlocked ==
    /\ ~open
    /\ C38_MonitorBlockedOnExitedWriter

\* ---------------------------------------------------------------- C39
\* C39: the entry count never exceeds the configured maximum, whatever the
\* interleaving of Set, SetIfAbsent and Increment
C39_EntriesWithinCap == hm.Entries <= MaxEntries

\* the same for the entries reachable from the bucket array
C39_TableWithinCap == Cardinality(KeysIn(Contents(hm))) <= MaxEntries

\* two Sets that both passed the cap check have taken the table over the cap
C39_SetsOverCap ==
    /\ hm.Entries > MaxEntries
    /\ \A p \in Procs : pc[p] = "idle" /\ op[p].kind = "set" /\ ret[p].ok

\* an Increment of an absent key has taken a full table over the cap
C39_IncrOverCap ==
    /\ hm.Entries > MaxEntries
    /\ opsLeft = MaxOps - 1
    /\ \E p \in Procs : pc[p] = "idle" /\ op[p].kind = "incr" /\ ret[p].ok

====
